---- MODULE Spec2Model ----
(***************************************************************************)
(* A model of the owlengine UCI codec: the warning sinks (src/src/warn.rs),*)
(* the typed strings and the token buffer (src/src/uci/str.rs), the score  *)
(* algebra (src/src/score.rs), Permille (src/src/uci/types.rs) and the     *)
(* parsers and formatters of src/src/uci/parse/ and src/src/uci/parse.rs.  *)
(*                                                                         *)
(* A Rust String is a sequence of pieces: a piece is a run of              *)
(* non-whitespace characters or the single space SP.  A parser is an       *)
(* operator from (token slice, sink) to a record [v, toks, s]: the value   *)
(* it returns, the slice it leaves in *tokens and the sink after the       *)
(* warnings it emitted.  Option<T> is a sequence of length 0 or 1.         *)
(***************************************************************************)
EXTENDS Integers, Sequences, FiniteSets, TLC

VARIABLES pc, build, val, line, res, sink, toks, moves, iters

vars == <<pc, build, val, line, res, sink, toks, moves, iters>>

(***************************************************************************)
(* Bounds of the model.                                                    *)
(***************************************************************************)
\* i32 is modelled as a two's complement integer of I32Bits bits
I32Bits == 4
\* largest mate distance, depth, ... drawn as an input
MaxMoves == 2
\* largest number of items of an info line drawn as an input
MaxInfo == 2
\* longest typed string drawn as an input, in tokens
MaxStr == 2
\* longest move list drawn as an input
MaxMvs == 2
\* longest list of scores that is sorted
MaxSort == 3
\* largest raw permille amount drawn from the contiguous range
MaxAmount == 1002
\* cap of the iteration counter of the loops
MaxIters == 4
\* longest input line, in tokens
MaxLine == 3

None == <<>>
Some(x) == <<x>>
IsSome(o) == Len(o) = 1
IsNone(o) == Len(o) = 0
Unwrap(o) == o[1]

\* x bound to a name in the body: the value of a `let`, computed once
With(x, Body(_)) == Body(x)

Min(a, b) == IF a <= b THEN a ELSE b

(***************************************************************************)
(* Strings and tokens                                                      *)
(***************************************************************************)
SP == " "

\* str::split_whitespace, as used by tokenize: the maximal runs of
\* non-whitespace pieces, in order; no token is empty
RECURSIVE SplitWs(_, _)
SplitWs(s, cur) ==
  IF s = <<>> THEN (IF cur = "" THEN <<>> ELSE <<cur>>)
  ELSE IF Head(s) = SP
       THEN (IF cur = "" THEN <<>> ELSE <<cur>>) \o SplitWs(Tail(s), "")
       ELSE SplitWs(Tail(s), cur \o Head(s))

tokenize(s) == SplitWs(s, "")

\* [&Token]::join(" ")
RECURSIVE JoinSp(_)
JoinSp(ts) ==
  IF ts = <<>> THEN <<>>
  ELSE IF Len(ts) = 1 THEN <<ts[1]>>
  ELSE <<ts[1], SP>> \o JoinSp(Tail(ts))

\* UciString::from_tokens
UciString_from_tokens(ts) == JoinSp(ts)

\* PushTokens for UciString: push_token
push_token(buf, token) ==
  (IF buf # <<>> THEN buf \o <<SP>> ELSE buf) \o <<token>>

push_str_hanging(buf, str) ==
  (IF buf # <<>> THEN buf \o <<SP>> ELSE buf) \o str

\* PushTokens for UciString: push_str
push_str(buf, str) ==
  IF str = <<>> THEN buf
  ELSE (IF buf # <<>> THEN buf \o <<SP>> ELSE buf) \o str

\* PushTokensExt::push_kw, push_tag, push_tag_many
push_kw(buf, kw) == push_token(buf, kw)
push_tag(buf, key, value) == push_token(push_kw(buf, key), value)
push_tag_many(buf, key, value) == push_str(push_kw(buf, key), value)

\* impl_uci_str!: from_tokens of a typed string with reserved tokens
RECURSIVE FirstBad(_, _)
FirstBad(ts, bad) ==
  IF ts = <<>> THEN None
  ELSE IF \E i \in 1..Len(bad) : bad[i] = Head(ts)
       THEN Some(bad[CHOOSE i \in 1..Len(bad) :
                        /\ bad[i] = Head(ts)
                        /\ \A j \in 1..(i - 1) : bad[j] # Head(ts)])
       ELSE FirstBad(Tail(ts), bad)

from_tokens_always(ts, bad) == [ok |-> TRUE, v |-> JoinSp(ts)]

from_tokens(ts, bad) ==
  With(FirstBad(ts, bad), LAMBDA b :
     IF IsSome(b)
     THEN [ok |-> FALSE, err |-> [e |-> "BadToken", tok |-> Unwrap(b)]]
     ELSE [ok |-> TRUE, v |-> JoinSp(ts)])

OptNameBad == <<"type", "value">>
OptComboVarBad == <<"var">>
RegisterNameBad == <<"code">>

OptName_from_tokens(ts) == from_tokens(ts, OptNameBad)
OptComboVar_from_tokens(ts) == from_tokens(ts, OptComboVarBad)
RegisterName_from_tokens(ts) == from_tokens(ts, RegisterNameBad)

\* from_str_impl: the loop over value.split_whitespace()
RECURSIVE from_str_loop(_, _, _, _)
from_str_loop(tokens, s, first, bad) ==
  IF tokens = <<>> THEN [ok |-> TRUE, v |-> s]
  ELSE With(IF ~first THEN s \o <<SP>> ELSE s, LAMBDA s1 :
          IF \E i \in 1..Len(bad) : bad[i] = Head(tokens)
          THEN [ok |-> FALSE, err |-> [e |-> "BadToken", tok |-> Head(tokens)]]
          ELSE from_str_loop(Tail(tokens), s1 \o <<Head(tokens)>>, FALSE, bad))

from_str_impl(value, bad) == from_str_loop(tokenize(value), <<>>, TRUE, bad)

\* the reserved tokens of each typed string; UciString has none
BadTokens ==
  [ty \in {"OptName", "OptComboVar", "RegisterName", "UciString"} |->
     CASE ty = "OptName" -> OptNameBad
       [] ty = "OptComboVar" -> OptComboVarBad
       [] ty = "RegisterName" -> RegisterNameBad
       [] OTHER -> <<>>]

\* <type>::from_tokens; UciString::from_tokens cannot fail
TypedFromTokens(ty, ts) ==
  IF ty = "UciString" THEN [ok |-> TRUE, v |-> UciString_from_tokens(ts)]
  ELSE from_tokens(ts, BadTokens[ty])

\* <type>::from_str; UciString unwraps from_str_impl(s, &[])
TypedFromStr(ty, value) == from_str_impl(value, BadTokens[ty])

(***************************************************************************)
(* Warning sinks                                                           *)
(***************************************************************************)
SinkKinds == {"Ignore", "Stderr", "All", "First", "Last", "FromFn"}

\* a fresh sink: store is what the sink holds (the vector of All, the
\* option of First and Last, the lines printed by Stderr, what the callback
\* of FromFn recorded); offered is the history of the errors handed to it;
\* maps is the stack of adapters borrowed on top of it
\* panicked: the thread panicked while it held the sink
NewSink(kind) ==
  [kind |-> kind, store |-> <<>>, offered |-> <<>>, maps |-> <<>>, panicked |-> FALSE]

SinkStore_last_wins(kind, store, error) ==
  IF kind = "Ignore" THEN store
  ELSE IF kind \in {"First", "Last"} THEN <<error>>
  ELSE Append(store, error)

\* Sink::warn of Ignore, Stderr, All, First, Last, FromFn
SinkStore(kind, store, error) ==
  CASE kind = "Ignore" -> store
    [] kind = "Stderr" -> Append(store, error)
    [] kind = "All" -> Append(store, error)
    [] kind = "First" -> IF store = <<>> THEN <<error>> ELSE store
    [] kind = "Last" -> <<error>>
    [] kind = "FromFn" -> Append(store, error)

ApplyMap_forget(m, error) == error

\* the mapper of an adapter applied to an error: From::from of the
\* #[from] variant, or the closure given to adapt_map
ApplyMap(m, error) ==
  IF m.pos >= 0 THEN [e |-> m.tag, pos |-> m.pos, error |-> error]
  ELSE [e |-> m.tag, error |-> error]

RECURSIVE ApplyMaps(_, _)
ApplyMaps(ms, error) ==
  IF ms = <<>> THEN error
  ELSE ApplyMaps(SubSeq(ms, 1, Len(ms) - 1), ApplyMap(ms[Len(ms)], error))

\* Sink::warn, through the adapters down to the underlying sink
Warn(s, error) ==
  With(ApplyMaps(s.maps, error), LAMBDA e2 :
     [s EXCEPT !.store = SinkStore(s.kind, s.store, e2),
               !.offered = Append(s.offered, e2)])

\* SinkExt::adapt and SinkExt::adapt_map: borrow the sink behind a mapper
adapt(s, tag) == [s EXCEPT !.maps = Append(s.maps, [tag |-> tag, pos |-> -1])]
adapt_map(s, tag, pos) == [s EXCEPT !.maps = Append(s.maps, [tag |-> tag, pos |-> pos])]
\* the end of the borrow
unadapt(s) == [s EXCEPT !.maps = SubSeq(s.maps, 1, Len(s.maps) - 1)]

or_warn_with_quiet(opt, error, s) ==
  IF IsNone(opt) /\ s.store = <<>> THEN Warn(s, error) ELSE s

\* OptionExt::or_warn_with
or_warn_with(opt, error, s) == IF IsNone(opt) THEN Warn(s, error) ELSE s

\* ResultExt::or_warn_map: tag = "" keeps the error as it is
or_warn_map(r, tag, s) ==
  IF r.ok THEN s
  ELSE Warn(s, IF tag = "" THEN r.err ELSE [e |-> tag, error |-> r.err])

EolError == [e |-> "UnexpectedEol"]

R(v, ts, s) == [v |-> v, toks |-> ts, s |-> s]

(***************************************************************************)
(* Integers: the widths are scaled down, the order i32 < u32 < i64 < u64   *)
(* of the largest values is kept                                           *)
(***************************************************************************)
RECURSIVE Pow2(_)
Pow2(n) == IF n = 0 THEN 1 ELSE 2 * Pow2(n - 1)

U32Bits == 5
I64Bits == 16
U64Bits == 17

I32Min == -Pow2(I32Bits - 1)
I32Max == Pow2(I32Bits - 1) - 1
U32Max == Pow2(U32Bits) - 1
I64Min == -Pow2(I64Bits - 1)
I64Max == Pow2(I64Bits - 1) - 1
U64Max == Pow2(U64Bits) - 1

PermilleMax == 1000

\* the numbers that have a token in the model: Display of an integer is
\* ToString, FromStr of an integer is its inverse on these
Nums ==
  (I32Min - 1)..(I32Max + 1)
    \cup {U32Max, U32Max + 1, -U32Max, -(U32Max + 1)}
    \cup {I64Min, I64Min + 1, I64Max, I64Max + 1}
    \cup {PermilleMax - 1, PermilleMax, PermilleMax + 1, PermilleMax + 500}

NumToks == {ToString(n) : n \in Nums}
NumVal == [t \in NumToks |-> CHOOSE n \in Nums : ToString(n) = t]

TypeMin(ty) ==
  CASE ty = "i32" -> I32Min
    [] ty = "i64" -> I64Min
    [] ty = "u32" -> 0
    [] ty = "u64" -> 0
    [] ty = "NonZeroU64" -> 1

TypeMax(ty) ==
  CASE ty = "i32" -> I32Max
    [] ty = "i64" -> I64Max
    [] ty = "u32" -> U32Max
    [] ty = "u64" -> U64Max
    [] ty = "NonZeroU64" -> U64Max

\* <integer>::from_str
ParseInt(ty, tok) ==
  IF tok \notin NumToks
  THEN [ok |-> FALSE, err |-> [e |-> "ParseIntError", kind |-> "InvalidDigit"]]
  ELSE With(NumVal[tok], LAMBDA n :
          IF n < 0 /\ TypeMin(ty) >= 0
          THEN [ok |-> FALSE, err |-> [e |-> "ParseIntError", kind |-> "InvalidDigit"]]
          ELSE IF n = 0 /\ ty = "NonZeroU64"
          THEN [ok |-> FALSE, err |-> [e |-> "ParseIntError", kind |-> "Zero"]]
          ELSE IF n > TypeMax(ty)
          THEN [ok |-> FALSE, err |-> [e |-> "ParseIntError", kind |-> "PosOverflow"]]
          ELSE IF n < TypeMin(ty)
          THEN [ok |-> FALSE, err |-> [e |-> "ParseIntError", kind |-> "NegOverflow"]]
          ELSE [ok |-> TRUE, v |-> n])

\* <integer>::to_string
IntToString(n) == ToString(n)

(***************************************************************************)
(* UCI moves (owlchess::moves::UciMove)                                    *)
(***************************************************************************)
NullMove == [null |-> TRUE, src |-> "", dst |-> "", promote |-> ""]
Mv(src, dst, promote) == [null |-> FALSE, src |-> src, dst |-> dst, promote |-> promote]

\* the tokens that name a move of the board
MoveTable ==
  [t \in {"e2e4", "e7e5", "a7a8q"} |->
     CASE t = "e2e4" -> Mv("e2", "e4", "")
       [] t = "e7e5" -> Mv("e7", "e5", "")
       [] t = "a7a8q" -> Mv("a7", "a8", "q")]

\* UciMove::from_str: "0000" is the null move; a square off the board or a
\* bad promotion letter is an error
UciMove_from_str(tok) ==
  IF tok = "0000" THEN [ok |-> TRUE, v |-> NullMove]
  ELSE IF tok \in DOMAIN MoveTable THEN [ok |-> TRUE, v |-> MoveTable[tok]]
  ELSE [ok |-> FALSE, err |-> [e |-> "RawParseError", tok |-> tok]]

\* UciMove::to_string
UciMove_to_string(mv) ==
  IF mv.null THEN "0000" ELSE mv.src \o mv.dst \o mv.promote

\* the classes of the bytes of a token: l = ASCII lowercase letter,
\* d = ASCII digit, o = anything else.  Every token the model does not
\* list here is a word of letters or a number, whose second byte is no digit
\* after a first byte that is a letter.
TokBytes(tok) ==
  CASE tok \in {"e2e4", "e7e5", "z9z9"} -> <<"l", "d", "l", "d">>
    [] tok \in {"a7a8q", "e2e4x"} -> <<"l", "d", "l", "d", "l">>
    [] tok = "0000" -> <<"d", "d", "d", "d">>
    [] tok = "e2e4e5" -> <<"l", "d", "l", "d", "l", "d">>
    [] tok \in NumToks -> <<"o", "d">>
    [] OTHER -> <<"l", "l", "l", "l", "l", "l">>

\* T::from_str for the types the parsers read with tok::parse
FromStr(ty, tok) ==
  IF ty = "UciMove" THEN UciMove_from_str(tok) ELSE ParseInt(ty, tok)

(***************************************************************************)
(* src/src/uci/parse/tok.rs                                                *)
(***************************************************************************)
\* the position of the first token equal to mid, 0 when there is none
Position(src, mid) ==
  IF \E i \in 1..Len(src) : src[i] = mid
  THEN CHOOSE i \in 1..Len(src) : src[i] = mid /\ \A j \in 1..(i - 1) : src[j] # mid
  ELSE 0

\* tok::try_split
tok_try_split(src, mid) ==
  With(Position(src, mid), LAMBDA pos :
     IF pos > 0
     THEN [l |-> SubSeq(src, 1, pos - 1), r |-> Some(SubSeq(src, pos + 1, Len(src)))]
     ELSE [l |-> src, r |-> None])

tok_split_quiet(src, mid, error, s) ==
  With(tok_try_split(src, mid), LAMBDA sp :
     [l |-> sp.l, r |-> IF IsSome(sp.r) THEN Unwrap(sp.r) ELSE <<>>, s |-> s])

\* tok::split
tok_split(src, mid, error, s) ==
  With(tok_try_split(src, mid), LAMBDA sp :
     [l |-> sp.l,
      r |-> IF IsSome(sp.r) THEN Unwrap(sp.r) ELSE <<>>,
      s |-> or_warn_with(sp.r, error, s)])

\* tok::next
tok_next(ts, s) ==
  IF ts = <<>> THEN R(None, ts, s) ELSE R(Some(Head(ts)), Tail(ts), s)

tok_next_warn_quiet(ts, s) == tok_next(ts, s)

\* tok::next_warn
tok_next_warn(ts, s) ==
  With(tok_next(ts, s), LAMBDA n :
     R(n.v, n.toks, or_warn_with(n.v, EolError, n.s)))

\* tok::parse_map: func wraps the error of from_str in the variant tag
tok_parse_map(ty, ts, tag, s) ==
  With(tok_next_warn(ts, s), LAMBDA n :
     IF IsNone(n.v) THEN R(None, n.toks, n.s)
     ELSE With(FromStr(ty, Unwrap(n.v)), LAMBDA p :
             R(IF p.ok THEN Some(p.v) ELSE None, n.toks, or_warn_map(p, tag, n.s))))

\* tok::parse: the error is converted by From::from
FromTag(ty) == IF ty = "UciMove" THEN "BadMove" ELSE "BadInteger"
tok_parse(ty, ts, s) == tok_parse_map(ty, ts, FromTag(ty), s)

\* tok::expect
tok_expect(ts, expected, on_mismatch, s) ==
  With(tok_next_warn(ts, s), LAMBDA n :
     IF IsNone(n.v) THEN R(None, n.toks, n.s)
     ELSE IF Unwrap(n.v) # expected THEN R(None, n.toks, Warn(n.s, on_mismatch))
     ELSE R(Some(TRUE), n.toks, n.s))

(***************************************************************************)
(* src/src/score.rs                                                        *)
(***************************************************************************)
Colors == {"White", "Black"}
\* Color::inv
Color_inv(side) == IF side = "White" THEN "Black" ELSE "White"

Cp(x) == [t |-> "Cp", cp |-> x]
RelMate(moves_, win) == [t |-> "Mate", moves |-> moves_, win |-> win]
AbsMate(moves_, winner) == [t |-> "Mate", moves |-> moves_, winner |-> winner]
\* the thread panicked: no value
Panic == [t |-> "Panic"]

\* the unary minus of i32: -i32::MIN overflows, which panics in a build with
\* overflow checks (debug) and wraps in a build without them (release)
neg_i32(x) ==
  IF x = I32Min THEN (IF build = "debug" THEN Panic ELSE Cp(I32Min)) ELSE Cp(-x)

\* RelScore::inv
RelScore_inv(r) ==
  CASE r.t = "Cp" -> neg_i32(r.cp)
    [] r.t = "Mate" -> RelMate(r.moves, ~r.win)
    [] OTHER -> Panic

\* RelScore::abs_to
RelScore_abs_to(r, side) ==
  CASE r.t = "Cp" -> (IF side = "White" THEN Cp(r.cp) ELSE neg_i32(r.cp))
    [] r.t = "Mate" -> AbsMate(r.moves, IF r.win THEN side ELSE Color_inv(side))
    [] OTHER -> Panic

\* AbsScore::rel_to
AbsScore_rel_to(a, side) ==
  CASE a.t = "Cp" -> (IF side = "White" THEN Cp(a.cp) ELSE neg_i32(a.cp))
    [] a.t = "Mate" -> RelMate(a.moves, a.winner = side)
    [] OTHER -> Panic

\* RelScore::as_cmp_tuple
as_cmp_tuple_nosign(r) ==
  CASE r.t = "Cp" -> <<0, r.cp>>
    [] r.t = "Mate" /\ r.win -> <<1, r.moves>>
    [] r.t = "Mate" /\ ~r.win -> <<-1, r.moves>>

as_cmp_tuple(r) ==
  CASE r.t = "Cp" -> <<0, r.cp>>
    [] r.t = "Mate" /\ r.win -> <<1, -r.moves>>
    [] r.t = "Mate" /\ ~r.win -> <<-1, r.moves>>

\* Ord for (i32, i64)
TupleCmp(x, y) ==
  IF x[1] < y[1] THEN "Less"
  ELSE IF x[1] > y[1] THEN "Greater"
  ELSE IF x[2] < y[2] THEN "Less"
  ELSE IF x[2] > y[2] THEN "Greater"
  ELSE "Equal"

\* Ord for RelScore
RelScore_cmp(a, b) == TupleCmp(as_cmp_tuple(a), as_cmp_tuple(b))

AbsScore_cmp_rev(a, b) ==
  RelScore_cmp(AbsScore_rel_to(b, "White"), AbsScore_rel_to(a, "White"))

\* Ord for AbsScore
AbsScore_cmp(a, b) ==
  RelScore_cmp(AbsScore_rel_to(a, "White"), AbsScore_rel_to(b, "White"))

\* slice::sort with the Ord of the element type (cmp is "rel" or "abs"):
\* a stable sort
Cmp(kind, a, b) == IF kind = "rel" THEN RelScore_cmp(a, b) ELSE AbsScore_cmp(a, b)

RECURSIVE Insert(_, _, _)
Insert(kind, x, l) ==
  IF l = <<>> THEN <<x>>
  ELSE IF Cmp(kind, x, Head(l)) = "Less" THEN <<x>> \o l
  ELSE <<Head(l)>> \o Insert(kind, x, Tail(l))

RECURSIVE Sort(_, _)
Sort(kind, l) ==
  IF l = <<>> THEN <<>>
  ELSE Insert(kind, l[Len(l)], Sort(kind, SubSeq(l, 1, Len(l) - 1)))

(***************************************************************************)
(* src/src/uci/types.rs                                                    *)
(***************************************************************************)
U16Mod == 65536

\* Permille::new: the assert panics on an amount above 1000
Permille_new(amount) == IF amount <= PermilleMax THEN [permille |-> amount] ELSE Panic

Permille_new_truncated_cast(amount) == [permille |-> amount % U16Mod]

\* Permille::new_truncated
Permille_new_truncated(amount) == [permille |-> Min(amount, PermilleMax) % U16Mod]

\* Permille::amount
Permille_amount(p) == p.permille

(***************************************************************************)
(* src/src/uci/parse/movevec.rs and parse_move_vec of src/src/uci/parse.rs *)
(***************************************************************************)
\* looks_like_move
looks_like_move(tok) ==
  With(TokBytes(tok), LAMBDA bytes :
     /\ Len(bytes) \in {4, 5}
     /\ bytes[1] = "l"
     /\ bytes[2] = "d"
     /\ bytes[3] = "l"
     /\ bytes[4] = "d")

\* the state of the loop: the slice left, the moves pushed, the sink, and
\* whether the loop was left
LoopState(ts, mvs, s, done) == [toks |-> ts, moves |-> mvs, s |-> s, done |-> done]

\* the rest of an iteration of the loop, once the token looks like a move
movevec_consume(st, until_first_error) ==
  With(Head(st.toks), LAMBDA tok :
  With(UciMove_from_str(tok), LAMBDA p :
     IF p.ok
     THEN LoopState(Tail(st.toks), Append(st.moves, p.v), st.s, FALSE)
     ELSE LoopState(Tail(st.toks), st.moves,
                    Warn(st.s, [e |-> "MoveVecError", pos |-> Len(st.moves), error |-> p.err]),
                    until_first_error)))

movevec_iter_greedy(st, until_first_error) ==
  IF st.toks = <<>> THEN [st EXCEPT !.done = TRUE]
  ELSE IF ~looks_like_move(Head(st.toks)) THEN [st EXCEPT !.toks = Tail(st.toks)]
  ELSE movevec_consume(st, until_first_error)

\* one iteration of the while loop of movevec::parse (movevec.rs): a token
\* that does not look like a move leaves the loop
movevec_iter(st, until_first_error) ==
  IF st.toks = <<>> THEN [st EXCEPT !.done = TRUE]
  ELSE IF ~looks_like_move(Head(st.toks)) THEN [st EXCEPT !.done = TRUE]
  ELSE movevec_consume(st, until_first_error)

\* one iteration of the while loop of parse_move_vec (parse.rs): a token
\* that does not look like a move continues the loop
parse_move_vec_iter(st, until_first_error) ==
  IF st.toks = <<>> THEN [st EXCEPT !.done = TRUE]
  ELSE IF ~looks_like_move(Head(st.toks)) THEN st
  ELSE movevec_consume(st, until_first_error)

RECURSIVE movevec_loop(_, _)
movevec_loop(st, until_first_error) ==
  IF st.done THEN st ELSE movevec_loop(movevec_iter(st, until_first_error), until_first_error)

\* movevec::parse
movevec_parse(ts, until_first_error, s) ==
  With(movevec_loop(LoopState(ts, <<>>, s, FALSE), until_first_error), LAMBDA st :
     R(st.moves, st.toks, st.s))

\* movevec::fmt
RECURSIVE movevec_fmt(_, _)
movevec_fmt(src, f) ==
  IF src = <<>> THEN f
  ELSE movevec_fmt(Tail(src), push_token(f, UciMove_to_string(Head(src))))

(***************************************************************************)
(* src/src/uci/parse/tristatus.rs                                          *)
(***************************************************************************)
\* tristatus::parse
tristatus_parse(ts, s) ==
  With(tok_next_warn(ts, s), LAMBDA n :
     IF IsNone(n.v) THEN R(None, n.toks, n.s)
     ELSE With(Unwrap(n.v), LAMBDA tok :
             CASE tok = "ok" -> R(Some("Ok"), n.toks, n.s)
               [] tok = "checking" -> R(Some("Checking"), n.toks, n.s)
               [] tok = "error" -> R(Some("Error"), n.toks, n.s)
               [] OTHER -> R(None, n.toks, Warn(n.s, [e |-> "UnexpectedToken", tok |-> tok]))))

\* tristatus::fmt
tristatus_fmt(src, f) ==
  CASE src = "Ok" -> push_kw(f, "ok")
    [] src = "Checking" -> push_kw(f, "checking")
    [] src = "Error" -> push_kw(f, "error")

(***************************************************************************)
(* src/src/uci/parse/score.rs                                              *)
(***************************************************************************)
\* i64::abs: i64::MIN.abs() overflows, which panics in a build with overflow
\* checks and wraps to i64::MIN in a build without them
abs_i64(x) ==
  IF x = I64Min THEN [panic |-> build = "debug", v |-> I64Min]
  ELSE [panic |-> FALSE, v |-> IF x < 0 THEN -x ELSE x]

\* u32::try_from(i64)
try_into_u32(x) == IF x >= 0 /\ x <= U32Max THEN Some(x) ELSE None

\* score::parse_unbounded
parse_unbounded(ts, s) ==
  With(tok_next_warn(ts, s), LAMBDA n :
     IF IsNone(n.v) THEN R(None, n.toks, n.s)
     ELSE With(Unwrap(n.v), LAMBDA tok :
             CASE tok = "cp" ->
                    With(tok_parse("i32", n.toks, n.s), LAMBDA p :
                       IF IsNone(p.v) THEN R(None, p.toks, p.s)
                       ELSE R(Some(Cp(Unwrap(p.v))), p.toks, p.s))
               [] tok = "mate" ->
                    With(tok_parse("i64", n.toks, n.s), LAMBDA p :
                       IF IsNone(p.v) THEN R(None, p.toks, p.s)
                       ELSE With(Unwrap(p.v), LAMBDA src :
                            With(abs_i64(src), LAMBDA a :
                            With(try_into_u32(a.v), LAMBDA mv :
                            With(or_warn_with(mv, [e |-> "MateTooLarge", n |-> src], p.s), LAMBDA s2 :
                               IF a.panic THEN R(None, p.toks, [p.s EXCEPT !.panicked = TRUE])
                               ELSE IF IsNone(mv) THEN R(None, p.toks, s2)
                               ELSE R(Some(RelMate(Unwrap(mv), src > 0)), p.toks, s2))))))
               [] OTHER -> R(None, n.toks, Warn(n.s, [e |-> "UnexpectedToken", tok |-> tok]))))

\* score::parse
score_parse(ts, s) ==
  With(parse_unbounded(ts, s), LAMBDA u :
     IF IsNone(u.v) THEN R(None, u.toks, u.s)
     ELSE With(IF u.toks = <<>> THEN "" ELSE Head(u.toks), LAMBDA first :
             CASE first = "lowerbound" ->
                    R(Some([score |-> Unwrap(u.v), bound |-> "Lower"]), Tail(u.toks), u.s)
               [] first = "upperbound" ->
                    R(Some([score |-> Unwrap(u.v), bound |-> "Upper"]), Tail(u.toks), u.s)
               [] OTHER ->
                    R(Some([score |-> Unwrap(u.v), bound |-> "Exact"]), u.toks, u.s)))

\* score::fmt_unbounded
fmt_unbounded(src, f) ==
  IF src.t = "Cp"
  THEN push_token(push_token(f, "cp"), IntToString(src.cp))
  ELSE push_token(push_token(f, "mate"),
                  IntToString(IF ~src.win THEN -src.moves ELSE src.moves))

\* score::fmt
score_fmt(src, f) ==
  With(fmt_unbounded(src.score, f), LAMBDA g :
     CASE src.bound = "Lower" -> push_token(g, "lowerbound")
       [] src.bound = "Upper" -> push_token(g, "upperbound")
       [] OTHER -> g)

(***************************************************************************)
(* src/src/uci/parse/info.rs                                               *)
(***************************************************************************)
\* make_permille
make_permille(val_, s) ==
  [p |-> Permille_new_truncated(val_),
   s |-> IF val_ >= PermilleMax
         THEN Warn(s, [e |-> "PermilleTruncated", src_value |-> val_]) ELSE s]

\* the items that hold one integer, with the type read by tok::parse
InfoIntKw ==
  {"depth", "seldepth", "time", "nodes", "multipv", "currmovenumber",
   "nps", "tbhits", "sbhits"}

InfoIntType(kw) ==
  IF kw \in {"depth", "seldepth", "multipv", "currmovenumber"} THEN "u32" ELSE "u64"

InfoIntTag(kw) ==
  CASE kw = "depth" -> "Depth"
    [] kw = "seldepth" -> "SelDepth"
    [] kw = "time" -> "Time"
    [] kw = "nodes" -> "Nodes"
    [] kw = "multipv" -> "MultiPv"
    [] kw = "currmovenumber" -> "CurrMoveNumber"
    [] kw = "nps" -> "Nps"
    [] kw = "tbhits" -> "TbHits"
    [] kw = "sbhits" -> "SbHits"

InfoIntKwOf(tag) == CHOOSE kw \in InfoIntKw : InfoIntTag(kw) = tag
InfoIntTags == {InfoIntTag(kw) : kw \in InfoIntKw}

\* Info values; a Duration is its number of milliseconds
InfoInt(tag, n) == [i |-> tag, n |-> n]
InfoMoves(tag, mvs) == [i |-> tag, moves |-> mvs]
InfoScore(sc) == [i |-> "Score", score |-> sc]
InfoCurrMove(mv) == [i |-> "CurrMove", mv |-> mv]
InfoPermille(tag, p) == [i |-> tag, p |-> p]
InfoCurrLine(n, mvs) == [i |-> "CurrLine", cpu_num |-> n, moves |-> mvs]

\* info::parse
info_parse(ts, s) ==
  With(tok_next_warn(ts, s), LAMBDA n :
     IF IsNone(n.v) THEN R(None, n.toks, n.s)
     ELSE With(Unwrap(n.v), LAMBDA tok :
             CASE tok \in InfoIntKw ->
                    With(tok_parse(InfoIntType(tok), n.toks, n.s), LAMBDA p :
                       IF IsNone(p.v) THEN R(None, p.toks, p.s)
                       ELSE R(Some(InfoInt(InfoIntTag(tok), Unwrap(p.v))), p.toks, p.s))
               [] tok \in {"pv", "refutation"} ->
                    With(movevec_parse(n.toks, TRUE, adapt(n.s, "BadMoveVec")), LAMBDA m :
                       R(Some(InfoMoves(IF tok = "pv" THEN "Pv" ELSE "Refutation", m.v)),
                         m.toks, unadapt(m.s)))
               [] tok = "score" ->
                    With(score_parse(n.toks, adapt(n.s, "BadScore")), LAMBDA sc :
                       IF IsNone(sc.v) THEN R(None, sc.toks, unadapt(sc.s))
                       ELSE R(Some(InfoScore(Unwrap(sc.v))), sc.toks, unadapt(sc.s)))
               [] tok = "currmove" ->
                    With(tok_parse("UciMove", n.toks, n.s), LAMBDA p :
                       IF IsNone(p.v) THEN R(None, p.toks, p.s)
                       ELSE R(Some(InfoCurrMove(Unwrap(p.v))), p.toks, p.s))
               [] tok \in {"hashfull", "cpuload"} ->
                    With(tok_parse("u64", n.toks, n.s), LAMBDA p :
                       IF IsNone(p.v) THEN R(None, p.toks, p.s)
                       ELSE With(make_permille(Unwrap(p.v), p.s), LAMBDA mp :
                               R(Some(InfoPermille(IF tok = "hashfull" THEN "HashFull"
                                                   ELSE "CpuLoad", mp.p)),
                                 p.toks, mp.s)))
               [] tok = "currline" ->
                    With(tok_parse("u32", n.toks, n.s), LAMBDA p :
                       IF IsNone(p.v) THEN R(None, p.toks, p.s)
                       ELSE With(movevec_parse(p.toks, TRUE, adapt(p.s, "BadMoveVec")), LAMBDA m :
                               R(Some(InfoCurrLine(Unwrap(p.v), m.v)), m.toks, unadapt(m.s))))
               [] OTHER -> R(None, n.toks, Warn(n.s, [e |-> "UnexpectedToken", tok |-> tok]))))

\* info::fmt
info_fmt(src, f) ==
  CASE src.i \in InfoIntTags ->
         push_token(push_token(f, InfoIntKwOf(src.i)), IntToString(src.n))
    [] src.i = "Pv" -> movevec_fmt(src.moves, push_token(f, "pv"))
    [] src.i = "Refutation" -> movevec_fmt(src.moves, push_token(f, "refutation"))
    [] src.i = "Score" -> score_fmt(src.score, push_token(f, "score"))
    [] src.i = "CurrMove" ->
         push_token(push_token(f, "currmove"), UciMove_to_string(src.mv))
    [] src.i = "HashFull" ->
         push_token(push_token(f, "hashfull"), IntToString(Permille_amount(src.p)))
    [] src.i = "CpuLoad" ->
         push_token(push_token(f, "cpuload"), IntToString(Permille_amount(src.p)))
    [] src.i = "CurrLine" ->
         movevec_fmt(src.moves,
                     push_token(push_token(f, "currline"), IntToString(src.cpu_num)))

(***************************************************************************)
(* src/src/uci/parse/optbody.rs                                            *)
(***************************************************************************)
\* <[T]>::split(|tok| tok == "var"): the groups between the separators
RECURSIVE SplitOn(_, _, _)
SplitOn(ts, sep, cur) ==
  IF ts = <<>> THEN <<cur>>
  ELSE IF Head(ts) = sep THEN <<cur>> \o SplitOn(Tail(ts), sep, <<>>)
  ELSE SplitOn(Tail(ts), sep, Append(cur, Head(ts)))

\* the filter_map over the groups after the default of a combo
RECURSIVE combo_vars(_, _, _)
combo_vars(groups, pos, s) ==
  IF groups = <<>> THEN [vars |-> <<>>, s |-> s]
  ELSE With(OptComboVar_from_tokens(Head(groups)), LAMBDA r :
       With(IF r.ok THEN s
                 ELSE Warn(s, [e |-> "BadComboVar", pos |-> pos, error |-> r.err]), LAMBDA s2 :
       With(combo_vars(Tail(groups), pos + 1, s2), LAMBDA rest :
          [vars |-> (IF r.ok THEN <<r.v>> ELSE <<>>) \o rest.vars, s |-> rest.s])))

OptCheck(b) == [o |-> "Check", b |-> b]
OptSpin(d, mn, mx) == [o |-> "Spin", default |-> d, min |-> mn, max |-> mx]
OptCombo(d, vs) == [o |-> "Combo", defvar |-> d, vars |-> vs]
OptButton == [o |-> "Button"]
OptString(str) == [o |-> "String", str |-> str]

ExpectedToken(kw) == [e |-> "ExpectedToken", tok |-> kw]

\* the closure of optbody::parse
optbody_parse_inner(ts, s) ==
  With(tok_next_warn(ts, s), LAMBDA n :
     IF IsNone(n.v) THEN R(None, n.toks, n.s)
     ELSE With(Unwrap(n.v), LAMBDA tok :
          With(tok_expect(n.toks, "default", ExpectedToken("default"), n.s), LAMBDA d :
             CASE tok = "check" ->
                    IF IsNone(d.v) THEN R(None, d.toks, d.s)
                    ELSE With(tok_next_warn(d.toks, d.s), LAMBDA b :
                            IF IsNone(b.v) THEN R(None, b.toks, b.s)
                            ELSE IF Unwrap(b.v) = "true"
                            THEN R(Some(OptCheck(TRUE)), b.toks, b.s)
                            ELSE IF Unwrap(b.v) = "false"
                            THEN R(Some(OptCheck(FALSE)), b.toks, b.s)
                            ELSE R(None, b.toks, Warn(b.s, [e |-> "ExpectedBool"])))
               [] tok = "spin" ->
                    IF IsNone(d.v) THEN R(None, d.toks, d.s)
                    ELSE With(tok_parse("i64", d.toks, d.s), LAMBDA p1 :
                         With(tok_expect(p1.toks, "min", ExpectedToken("min"), p1.s), LAMBDA e2 :
                         With(tok_parse("i64", e2.toks, e2.s), LAMBDA p2 :
                         With(tok_expect(p2.toks, "max", ExpectedToken("max"), p2.s), LAMBDA e3 :
                         With(tok_parse("i64", e3.toks, e3.s), LAMBDA p3 :
                            IF IsNone(p1.v) THEN R(None, p1.toks, p1.s)
                            ELSE IF IsNone(e2.v) THEN R(None, e2.toks, e2.s)
                            ELSE IF IsNone(p2.v) THEN R(None, p2.toks, p2.s)
                            ELSE IF IsNone(e3.v) THEN R(None, e3.toks, e3.s)
                            ELSE IF IsNone(p3.v) THEN R(None, p3.toks, p3.s)
                            ELSE R(Some(OptSpin(Unwrap(p1.v), Unwrap(p2.v), Unwrap(p3.v))),
                                   p3.toks, p3.s))))))
               [] tok = "combo" ->
                    IF IsNone(d.v) THEN R(None, d.toks, d.s)
                    ELSE With(SplitOn(d.toks, "var", <<>>), LAMBDA groups :
                         With(OptComboVar_from_tokens(Head(groups)), LAMBDA r :
                         With(or_warn_map(r, "BadComboDefaultVar", d.s), LAMBDA s2 :
                         With(combo_vars(Tail(groups), 0, s2), LAMBDA vs :
                            IF ~r.ok THEN R(None, <<>>, s2)
                            ELSE R(Some(OptCombo(r.v, vs.vars)), <<>>, vs.s)))))
               [] tok = "button" -> R(Some(OptButton), n.toks, n.s)
               [] tok = "string" ->
                    IF IsNone(d.v) THEN R(None, d.toks, d.s)
                    ELSE R(Some(OptString(UciString_from_tokens(d.toks))), <<>>, d.s)
               [] OTHER -> R(None, n.toks, Warn(n.s, [e |-> "UnknownType", tok |-> tok])))))

\* optbody::parse
optbody_parse(ts, s) ==
  With(optbody_parse_inner(ts, s), LAMBDA r :
     IF r.toks # <<>>
     THEN R(r.v, r.toks, Warn(r.s, [e |-> "ExtraToken", tok |-> Head(r.toks)]))
     ELSE r)

RECURSIVE fmt_vars(_, _)
fmt_vars(vs, f) ==
  IF vs = <<>> THEN f
  ELSE fmt_vars(Tail(vs), push_str(push_token(f, "var"), Head(vs)))

\* optbody::fmt
optbody_fmt(src, f) ==
  CASE src.o = "Check" ->
         push_token(push_token(push_token(f, "check"), "default"),
                    IF src.b THEN "true" ELSE "false")
    [] src.o = "Spin" ->
         push_token(push_token(push_token(push_token(push_token(push_token(
           push_token(f, "spin"), "default"), IntToString(src.default)),
           "min"), IntToString(src.min)), "max"), IntToString(src.max))
    [] src.o = "Combo" ->
         fmt_vars(src.vars, push_str(push_token(push_token(f, "combo"), "default"),
                                     src.defvar))
    [] src.o = "Button" -> push_token(f, "button")
    [] src.o = "String" -> push_str(push_token(f, "string"), src.str)

(***************************************************************************)
(* src/src/uci/parse/message.rs                                            *)
(***************************************************************************)
MsgId(which, name) == [m |-> "Id", which |-> which, name |-> name]
MsgUciOk == [m |-> "UciOk"]
MsgReadyOk == [m |-> "ReadyOk"]
MsgBestMove(bestmove, ponder) == [m |-> "BestMove", bestmove |-> bestmove, ponder |-> ponder]
MsgCopyProtection(status) == [m |-> "CopyProtection", status |-> status]
MsgRegistration(status) == [m |-> "Registration", status |-> status]
MsgInfo(info, string) == [m |-> "Info", info |-> info, string |-> string]
MsgOption(name, body) == [m |-> "Option", name |-> name, body |-> body]

UnexpectedToken(tok) == [e |-> "UnexpectedToken", tok |-> tok]
ExtraToken(tok) == [e |-> "ExtraToken", tok |-> tok]

\* the state of the while loop of the info branch
InfoLoopState(ts, info, string, s, done) ==
  [toks |-> ts, info |-> info, string |-> string, s |-> s, done |-> done]

\* one iteration of the while loop of the info branch
info_iter(st) ==
  IF st.toks = <<>> THEN [st EXCEPT !.done = TRUE]
  ELSE IF Head(st.toks) = "string"
  THEN InfoLoopState(<<>>, st.info, Some(UciString_from_tokens(Tail(st.toks))), st.s, TRUE)
  ELSE With(Len(st.info), LAMBDA pos :
       With(info_parse(st.toks, adapt_map(st.s, "BadInfo", pos)), LAMBDA r :
          InfoLoopState(r.toks,
                        IF IsSome(r.v) THEN Append(st.info, Unwrap(r.v)) ELSE st.info,
                        st.string, unadapt(r.s), FALSE)))

RECURSIVE info_loop(_)
info_loop(st) == IF st.done THEN st ELSE info_loop(info_iter(st))

bestmove_ponder_any(ts, s) ==
  With(tok_next(ts, s), LAMBDA n :
     IF IsNone(n.v) THEN R(None, n.toks, n.s)
     ELSE tok_parse_map("UciMove", n.toks, "InvalidPonder", n.s))

\* the closure that reads the ponder move of bestmove
bestmove_ponder(ts, s) ==
  With(tok_next(ts, s), LAMBDA n :
     IF IsNone(n.v) THEN R(None, n.toks, n.s)
     ELSE IF Unwrap(n.v) # "ponder"
     THEN R(None, n.toks, Warn(n.s, UnexpectedToken(Unwrap(n.v))))
     ELSE tok_parse_map("UciMove", n.toks, "InvalidPonder", n.s))

MessageKw ==
  {"id", "uciok", "readyok", "bestmove", "copyprotection", "registration",
   "info", "option"}

\* the arm of the match of message::parse for the keyword kw, given the
\* slice after the keyword
message_arm(kw, ts, s) ==
  CASE kw = "id" ->
         With(tok_next_warn(ts, s), LAMBDA n :
            IF IsNone(n.v) THEN R(None, n.toks, n.s)
            ELSE IF Unwrap(n.v) = "name"
            THEN R(Some(MsgId("Name", UciString_from_tokens(n.toks))), <<>>, n.s)
            ELSE IF Unwrap(n.v) = "author"
            THEN R(Some(MsgId("Author", UciString_from_tokens(n.toks))), <<>>, n.s)
            ELSE R(None, n.toks, Warn(n.s, UnexpectedToken(Unwrap(n.v)))))
    [] kw = "uciok" -> R(Some(MsgUciOk), ts, s)
    [] kw = "readyok" -> R(Some(MsgReadyOk), ts, s)
    [] kw = "bestmove" ->
         With(tok_next_warn(ts, s), LAMBDA n :
            IF IsNone(n.v) THEN R(None, n.toks, n.s)
            ELSE With(UciMove_from_str(Unwrap(n.v)), LAMBDA p :
                 With(or_warn_map(p, "InvalidBestmove", n.s), LAMBDA s2 :
                 With(IF p.ok THEN p.v ELSE NullMove, LAMBDA bestmove :
                 With(bestmove_ponder(n.toks, s2), LAMBDA po :
                    R(Some(MsgBestMove(bestmove, po.v)), po.toks, po.s))))))
    [] kw = "copyprotection" ->
         With(tristatus_parse(ts, adapt_map(s, "InvalidCopyProtection", -1)), LAMBDA t :
            IF IsNone(t.v) THEN R(None, t.toks, unadapt(t.s))
            ELSE R(Some(MsgCopyProtection(Unwrap(t.v))), t.toks, unadapt(t.s)))
    [] kw = "registration" ->
         With(tristatus_parse(ts, adapt_map(s, "InvalidRegistration", -1)), LAMBDA t :
            IF IsNone(t.v) THEN R(None, t.toks, unadapt(t.s))
            ELSE R(Some(MsgRegistration(Unwrap(t.v))), t.toks, unadapt(t.s)))
    [] kw = "info" ->
         With(info_loop(InfoLoopState(ts, <<>>, None, s, FALSE)), LAMBDA st :
            R(Some(MsgInfo(st.info, st.string)), st.toks, st.s))
    [] kw = "option" ->
         With(tok_expect(ts, "name", [e |-> "OptionNoName"], s), LAMBDA x :
            IF IsNone(x.v) THEN R(None, x.toks, x.s)
            ELSE With(tok_split(x.toks, "type", [e |-> "OptionNoType"], x.s), LAMBDA sp :
                 With(OptName_from_tokens(sp.l), LAMBDA name :
                 With(or_warn_map(name, "OptionBadName", sp.s), LAMBDA s2 :
                 With(optbody_parse(sp.r, adapt(s2, "OptionBadBody")), LAMBDA body :
                    IF ~name.ok THEN R(None, <<>>, s2)
                    ELSE IF IsNone(body.v) THEN R(None, <<>>, unadapt(body.s))
                    ELSE R(Some(MsgOption(name.v, Unwrap(body.v))), <<>>, unadapt(body.s)))))))

\* the state of the loop of the closure of a top-level parser: v is the
\* value the closure returned once done
TopState(ts, s, done, v) == [toks |-> ts, s |-> s, done |-> done, v |-> v]

\* one iteration of the loop of message::parse
message_iter(st) ==
  With(tok_next(st.toks, st.s), LAMBDA n :
     IF IsNone(n.v) THEN TopState(n.toks, n.s, TRUE, None)
     ELSE IF Unwrap(n.v) \in MessageKw
     THEN With(message_arm(Unwrap(n.v), n.toks, n.s), LAMBDA r :
             TopState(r.toks, r.s, TRUE, r.v))
     ELSE TopState(n.toks, Warn(n.s, UnexpectedToken(Unwrap(n.v))), FALSE, None))

RECURSIVE message_loop(_)
message_loop(st) == IF st.done THEN st ELSE message_loop(message_iter(st))

\* message::parse
message_parse(ts, s) ==
  With(message_loop(TopState(ts, s, FALSE, None)), LAMBDA st :
     IF st.toks # <<>>
     THEN R(st.v, st.toks, Warn(st.s, UnexpectedToken(Head(st.toks))))
     ELSE R(st.v, st.toks, st.s))

RECURSIVE fmt_infos(_, _)
fmt_infos(info, f) ==
  IF info = <<>> THEN f ELSE fmt_infos(Tail(info), info_fmt(Head(info), f))

\* message::fmt
message_fmt(src, f) ==
  CASE src.m = "Id" ->
         push_tag_many(push_kw(f, "id"),
                       IF src.which = "Name" THEN "name" ELSE "author", src.name)
    [] src.m = "UciOk" -> push_kw(f, "uciok")
    [] src.m = "ReadyOk" -> push_kw(f, "readyok")
    [] src.m = "BestMove" ->
         With(push_tag(f, "bestmove", UciMove_to_string(src.bestmove)), LAMBDA g :
            IF IsSome(src.ponder)
            THEN push_tag(g, "ponder", UciMove_to_string(Unwrap(src.ponder)))
            ELSE g)
    [] src.m = "CopyProtection" -> tristatus_fmt(src.status, push_kw(f, "copyprotection"))
    [] src.m = "Registration" -> tristatus_fmt(src.status, push_kw(f, "registration"))
    [] src.m = "Info" ->
         With(fmt_infos(src.info, push_kw(f, "info")), LAMBDA g :
            IF IsSome(src.string) THEN push_tag_many(g, "string", Unwrap(src.string)) ELSE g)
    [] src.m = "Option" ->
         optbody_fmt(src.body,
                     push_kw(push_tag_many(push_kw(f, "option"), "name", src.name), "type"))

\* the result of parse_line: the value, the sink, and whether the call
\* panicked instead of returning
LineResult(r) == [v |-> r.v, s |-> r.s, panicked |-> r.s.panicked]

\* Parse::parse_line for Message
Message_parse_line(l, s) == LineResult(message_parse(tokenize(l), s))

\* Fmt::fmt_line for Message
Message_fmt_line(v) == message_fmt(v, <<>>)

(***************************************************************************)
(* owlchess::RawBoard                                                      *)
(***************************************************************************)
\* RawBoard::initial and a board after 1. e4
InitialBoard == [board |-> "initial"]
OtherBoard == [board |-> "e4"]
BoardVals == {InitialBoard, OtherBoard}

\* RawBoard::to_string: the FEN of the board, as a string
RawBoard_to_string(b) ==
  IF b = InitialBoard
  THEN JoinSp(<<"rnbqkbnr/pppppppp/8/8/8/8/PPPPPPPP/RNBQKBNR", "w", "KQkq", "-", "0", "1">>)
  ELSE JoinSp(<<"rnbqkbnr/pppppppp/8/8/4P3/8/PPPP1PPP/RNBQKBNR", "b", "KQkq", "e3", "0", "1">>)

\* RawBoard::from_fen
RawBoard_from_fen(str) ==
  IF \E b \in BoardVals : RawBoard_to_string(b) = str
  THEN [ok |-> TRUE, v |-> CHOOSE b \in BoardVals : RawBoard_to_string(b) = str]
  ELSE [ok |-> FALSE, err |-> [e |-> "RawFenParseError"]]

(***************************************************************************)
(* The keyword loop of go: src/src/uci/parse/go.rs and parse_go of         *)
(* src/src/uci/parse/command.rs                                            *)
(***************************************************************************)
GoIntKw ==
  {"wtime", "btime", "winc", "binc", "movestogo", "mate", "depth", "nodes", "movetime"}
GoKw == {"searchmoves", "ponder", "infinite"} \cup GoIntKw

\* the locals of the loop, all None at first
GoNone ==
  [searchmoves |-> None, ponder |-> None, infinite |-> None, wtime |-> None,
   btime |-> None, winc |-> None, binc |-> None, movestogo |-> None,
   mate |-> None, depth |-> None, nodes |-> None, movetime |-> None]

\* the integer types of the fields of msg::Go
GoFieldType ==
  [kw \in GoIntKw |->
     CASE kw = "movestogo" -> "NonZeroU64"
       [] kw = "nodes" -> "u32"
       [] OTHER -> "u64"]

\* the integer types of the fields of GoLimits (msg.rs)
GoLimitsFieldType ==
  [kw \in GoIntKw |-> IF kw = "movestogo" THEN "NonZeroU64" ELSE "u64"]

GoLoopState(ts, f, s, done) == [toks |-> ts, f |-> f, s |-> s, done |-> done]

\* the body of the while loop over the keywords of go; dup and intsub are
\* the names of the error variants, ty the types of the integer fields
go_loop_body(st, dup, intsub, ty) ==
  With(tok_next(st.toks, st.s), LAMBDA n :
     IF IsNone(n.v) THEN GoLoopState(n.toks, st.f, n.s, TRUE)
     ELSE With(Unwrap(n.v), LAMBDA item :
             CASE item = "searchmoves" ->
                    With(IF IsSome(st.f.ponder)
                              THEN Warn(n.s, [e |-> dup, name |-> "searchmoves"]) ELSE n.s, LAMBDA s1 :
                    With(movevec_parse(n.toks, FALSE, adapt(s1, "InvalidSearchMove")), LAMBDA m :
                       GoLoopState(m.toks, [st.f EXCEPT !.searchmoves = Some(m.v)],
                                   unadapt(m.s), FALSE)))
               [] item \in {"ponder", "infinite"} ->
                    With(IF IsSome(st.f[item])
                              THEN Warn(n.s, [e |-> dup, name |-> item]) ELSE n.s, LAMBDA s1 :
                       GoLoopState(n.toks, [st.f EXCEPT ![item] = Some(TRUE)], s1, FALSE))
               [] item \in GoIntKw ->
                    With(IF IsSome(st.f[item])
                              THEN Warn(n.s, [e |-> dup, name |-> item]) ELSE n.s, LAMBDA s1 :
                    With(tok_next_warn(n.toks, s1), LAMBDA nx :
                    With(FromStr(ty[item], Unwrap(nx.v)), LAMBDA p :
                       IF IsNone(nx.v) THEN GoLoopState(nx.toks, st.f, nx.s, FALSE)
                       ELSE IF p.ok
                       THEN GoLoopState(nx.toks, [st.f EXCEPT ![item] = Some(p.v)], nx.s, FALSE)
                       ELSE GoLoopState(nx.toks, st.f,
                                        Warn(nx.s, [e |-> intsub, name |-> item,
                                                    error |-> p.err]), FALSE))))
               [] OTHER ->
                    GoLoopState(n.toks, st.f, Warn(n.s, UnexpectedToken(item)), FALSE)))

\* one iteration of the loop of go::parse (go.rs)
go_iter(st) == go_loop_body(st, "Duplicate", "InvalidIntSub", GoFieldType)

\* one iteration of the loop of parse_go (command.rs)
parse_go_iter(st) == go_loop_body(st, "GoDuplicate", "GoInvalidIntSub", GoLimitsFieldType)

RECURSIVE go_loop(_)
go_loop(st) == IF st.done THEN st ELSE go_loop(go_iter(st))

RECURSIVE parse_go_loop(_)
parse_go_loop(st) == IF st.done THEN st ELSE parse_go_loop(parse_go_iter(st))

\* go::parse: the record of what was parsed; a Duration is its milliseconds
go_parse(ts, s) ==
  With(go_loop(GoLoopState(ts, GoNone, s, FALSE)), LAMBDA st :
     R(st.f, st.toks, st.s))

\* the integer parameters of go::fmt, in the order they are written
RECURSIVE go_fmt_ints(_, _, _)
go_fmt_ints(src, kws, f) ==
  IF kws = <<>> THEN f
  ELSE go_fmt_ints(src, Tail(kws),
                   IF IsSome(src[Head(kws)])
                   THEN push_tag(f, Head(kws), IntToString(Unwrap(src[Head(kws)])))
                   ELSE f)

GoIntOrder ==
  <<"wtime", "btime", "winc", "binc", "movestogo", "mate", "depth", "nodes", "movetime">>

go_fmt_ponder_first(src, f) ==
  With(IF IsSome(src.ponder) THEN push_kw(f, "ponder") ELSE f, LAMBDA f1 :
  With(IF IsSome(src.searchmoves)
            THEN movevec_fmt(Unwrap(src.searchmoves), push_kw(f1, "searchmoves")) ELSE f1, LAMBDA f2 :
  With(IF IsSome(src.infinite) THEN push_kw(f2, "infinite") ELSE f2, LAMBDA f3 :
     go_fmt_ints(src, GoIntOrder, f3))))

\* go::fmt
go_fmt(src, f) ==
  With(IF IsSome(src.searchmoves)
            THEN movevec_fmt(Unwrap(src.searchmoves), push_kw(f, "searchmoves")) ELSE f, LAMBDA f1 :
  With(IF IsSome(src.ponder) THEN push_kw(f1, "ponder") ELSE f1, LAMBDA f2 :
  With(IF IsSome(src.infinite) THEN push_kw(f2, "infinite") ELSE f2, LAMBDA f3 :
     go_fmt_ints(src, GoIntOrder, f3))))

(***************************************************************************)
(* src/src/uci/parse/command.rs                                            *)
(***************************************************************************)
LimInfinite == [l |-> "Infinite"]
LimClock(wtime, btime, winc, binc, movestogo) ==
  [l |-> "Clock", wtime |-> wtime, btime |-> btime, winc |-> winc, binc |-> binc,
   movestogo |-> movestogo]
LimMate(n) == [l |-> "Mate", n |-> n]
LimLimits(depth, nodes, movetime) ==
  [l |-> "Limits", depth |-> depth, nodes |-> nodes, movetime |-> movetime]

CmdUci == [c |-> "Uci"]
CmdDebug(b) == [c |-> "Debug", b |-> b]
CmdIsReady == [c |-> "IsReady"]
CmdSetOption(name, value) == [c |-> "SetOption", name |-> name, value |-> value]
CmdRegisterLater == [c |-> "RegisterLater"]
CmdRegisterNow(name, code) == [c |-> "RegisterNow", name |-> name, code |-> code]
CmdUciNewGame == [c |-> "UciNewGame"]
CmdPosition(startpos, mvs) == [c |-> "Position", startpos |-> startpos, moves |-> mvs]
CmdGo(searchmoves, ponder, limits) ==
  [c |-> "Go", searchmoves |-> searchmoves, ponder |-> ponder, limits |-> limits]
CmdStop == [c |-> "Stop"]
CmdPonderHit == [c |-> "PonderHit"]
CmdQuit == [c |-> "Quit"]

\* the closure of parse_go that picks the limits: f is the locals left
\* after the take() calls
go_limits(f0, s) ==
  IF IsSome(f0.infinite)
  THEN [limits |-> LimInfinite, f |-> [f0 EXCEPT !.infinite = None], s |-> s]
  ELSE IF IsSome(f0.mate)
  THEN [limits |-> LimMate(Unwrap(f0.mate)), f |-> [f0 EXCEPT !.mate = None], s |-> s]
  ELSE IF IsSome(f0.wtime) /\ IsSome(f0.btime)
  THEN [limits |-> LimClock(Unwrap(f0.wtime), Unwrap(f0.btime),
                            IF IsSome(f0.winc) THEN Unwrap(f0.winc) ELSE 0,
                            IF IsSome(f0.binc) THEN Unwrap(f0.binc) ELSE 0,
                            f0.movestogo),
        f |-> [f0 EXCEPT !.wtime = None, !.btime = None, !.winc = None,
                         !.binc = None, !.movestogo = None],
        s |-> s]
  ELSE IF IsSome(f0.depth) \/ IsSome(f0.nodes) \/ IsSome(f0.movetime)
  THEN [limits |-> LimLimits(f0.depth, f0.nodes, f0.movetime),
        f |-> [f0 EXCEPT !.depth = None, !.nodes = None, !.movetime = None],
        s |-> s]
  ELSE [limits |-> LimInfinite, f |-> f0, s |-> Warn(s, [e |-> "GoNoLimits"])]

\* verify_taken!
VerifyOrder ==
  <<"infinite", "wtime", "btime", "winc", "binc", "movestogo", "mate", "depth",
    "nodes", "movetime">>

RECURSIVE verify_taken(_, _, _)
verify_taken(f, items, s) ==
  IF items = <<>> THEN s
  ELSE verify_taken(f, Tail(items),
                    IF IsSome(f[Head(items)])
                    THEN Warn(s, [e |-> "GoConflict", name |-> Head(items)]) ELSE s)

\* parse_go
parse_go(ts, s) ==
  With(parse_go_loop(GoLoopState(ts, GoNone, s, FALSE)), LAMBDA st :
  With(go_limits(st.f, st.s), LAMBDA lim :
     R(CmdGo(st.f.searchmoves, st.f.ponder, lim.limits), st.toks,
       verify_taken(lim.f, VerifyOrder, lim.s))))

RECURSIVE position_moves_last(_, _)
position_moves_last(ts, pos) ==
  IF ts = <<>> THEN [ok |-> TRUE, v |-> <<>>]
  ELSE With(UciMove_from_str(Head(ts)), LAMBDA p :
       With(position_moves_last(Tail(ts), pos + 1), LAMBDA rest :
          IF ~rest.ok THEN rest
          ELSE IF ~p.ok
          THEN [ok |-> FALSE, err |-> [e |-> "InvalidMove", pos |-> pos, error |-> p.err]]
          ELSE [ok |-> TRUE, v |-> <<p.v>> \o rest.v]))

\* the moves of position: collect::<Result<Vec<_>, _>>() stops at the first
\* token that is no move
RECURSIVE position_moves(_, _)
position_moves(ts, pos) ==
  IF ts = <<>> THEN [ok |-> TRUE, v |-> <<>>]
  ELSE With(UciMove_from_str(Head(ts)), LAMBDA p :
       With(position_moves(Tail(ts), pos + 1), LAMBDA rest :
          IF ~p.ok
          THEN [ok |-> FALSE, err |-> [e |-> "InvalidMove", pos |-> pos, error |-> p.err]]
          ELSE IF ~rest.ok THEN rest
          ELSE [ok |-> TRUE, v |-> <<p.v>> \o rest.v]))

CommandKw ==
  {"uci", "debug", "isready", "setoption", "register", "ucinewgame", "position",
   "go", "stop", "ponderhit", "quit"}

\* the arm of the match of command::parse for the keyword kw, given the
\* slice after the keyword
command_arm(kw, ts, s) ==
  CASE kw = "uci" -> R(Some(CmdUci), ts, s)
    [] kw = "debug" ->
         With(tok_next_warn(ts, s), LAMBDA n :
            IF IsNone(n.v) THEN R(None, n.toks, n.s)
            ELSE IF Unwrap(n.v) = "on" THEN R(Some(CmdDebug(TRUE)), n.toks, n.s)
            ELSE IF Unwrap(n.v) = "off" THEN R(Some(CmdDebug(FALSE)), n.toks, n.s)
            ELSE R(None, n.toks, Warn(n.s, UnexpectedToken(Unwrap(n.v)))))
    [] kw = "isready" -> R(Some(CmdIsReady), ts, s)
    [] kw = "setoption" ->
         With(tok_expect(ts, "name", [e |-> "SetOptionNoName"], s), LAMBDA x :
            IF IsNone(x.v) THEN R(None, x.toks, x.s)
            ELSE With(tok_try_split(x.toks, "value"), LAMBDA sp :
                 With(OptName_from_tokens(sp.l), LAMBDA name :
                 With(or_warn_map(name, "SetOptionBadName", x.s), LAMBDA s2 :
                 With(IF IsSome(sp.r)
                              THEN Some(UciString_from_tokens(Unwrap(sp.r))) ELSE None, LAMBDA value :
                    IF ~name.ok THEN R(None, <<>>, s2)
                    ELSE R(Some(CmdSetOption(name.v, value)), <<>>, s2))))))
    [] kw = "register" ->
         With(tok_next_warn(ts, s), LAMBDA n :
            IF IsNone(n.v) THEN R(None, n.toks, n.s)
            ELSE IF Unwrap(n.v) = "later" THEN R(Some(CmdRegisterLater), n.toks, n.s)
            ELSE IF Unwrap(n.v) = "name"
            THEN With(tok_split(n.toks, "code", [e |-> "RegisterNoCode"], n.s), LAMBDA sp :
                 With(RegisterName_from_tokens(sp.l), LAMBDA name :
                 With(or_warn_map(name, "RegisterBadName", sp.s), LAMBDA s2 :
                    IF ~name.ok THEN R(None, <<>>, s2)
                    ELSE R(Some(CmdRegisterNow(name.v, UciString_from_tokens(sp.r))),
                           <<>>, s2))))
            ELSE R(None, n.toks, Warn(n.s, UnexpectedToken(Unwrap(n.v)))))
    [] kw = "ucinewgame" -> R(Some(CmdUciNewGame), ts, s)
    [] kw = "position" ->
         With(tok_split(ts, "moves", [e |-> "PositionNoMoves"], s), LAMBDA sp :
         With(tok_next(sp.l, sp.s), LAMBDA n :
         With(IF IsSome(n.v) THEN Unwrap(n.v) ELSE "", LAMBDA first :
         With(RawBoard_from_fen(JoinSp(n.toks)), LAMBDA fen :
             \* the board, or no board when the branch returned None
         With(CASE IsNone(n.v) ->
                          [b |-> Some(InitialBoard), s |-> Warn(n.s, [e |-> "NoPosition"])]
                     [] first = "startpos" ->
                          [b |-> Some(InitialBoard),
                           s |-> IF n.toks # <<>>
                                 THEN Warn(n.s, ExtraToken(Head(n.toks))) ELSE n.s]
                     [] first = "fen" ->
                          [b |-> IF fen.ok THEN Some(fen.v) ELSE None,
                           s |-> or_warn_map(fen, "InvalidFen", n.s)]
                     [] OTHER ->
                          [b |-> None, s |-> Warn(n.s, UnexpectedToken(first))], LAMBDA sb :
         With(position_moves(sp.r, 0), LAMBDA mv :
            IF IsNone(sb.b) THEN R(None, <<>>, sb.s)
            ELSE IF ~mv.ok THEN R(None, <<>>, or_warn_map(mv, "", sb.s))
            ELSE R(Some(CmdPosition(Unwrap(sb.b), mv.v)), <<>>, sb.s)))))))
    [] kw = "go" -> With(parse_go(ts, s), LAMBDA g : R(Some(g.v), g.toks, g.s))
    [] kw = "stop" -> R(Some(CmdStop), ts, s)
    [] kw = "ponderhit" -> R(Some(CmdPonderHit), ts, s)
    [] kw = "quit" -> R(Some(CmdQuit), ts, s)

command_iter_fatal(st) ==
  With(tok_next(st.toks, st.s), LAMBDA n :
     IF IsNone(n.v) THEN TopState(n.toks, n.s, TRUE, None)
     ELSE IF Unwrap(n.v) \in CommandKw
     THEN With(command_arm(Unwrap(n.v), n.toks, n.s), LAMBDA r :
             TopState(r.toks, r.s, TRUE, r.v))
     ELSE TopState(n.toks, Warn(n.s, UnexpectedToken(Unwrap(n.v))), TRUE, None))

\* one iteration of the loop of command::parse
command_iter(st) ==
  With(tok_next(st.toks, st.s), LAMBDA n :
     IF IsNone(n.v) THEN TopState(n.toks, n.s, TRUE, None)
     ELSE IF Unwrap(n.v) \in CommandKw
     THEN With(command_arm(Unwrap(n.v), n.toks, n.s), LAMBDA r :
             TopState(r.toks, r.s, TRUE, r.v))
     ELSE TopState(n.toks, Warn(n.s, UnexpectedToken(Unwrap(n.v))), FALSE, None))

RECURSIVE command_loop(_)
command_loop(st) == IF st.done THEN st ELSE command_loop(command_iter(st))

command_parse_strict(ts, s) ==
  With(command_loop(TopState(ts, s, FALSE, None)), LAMBDA st :
     IF st.toks # <<>>
     THEN R(None, st.toks, Warn(st.s, ExtraToken(Head(st.toks))))
     ELSE R(st.v, st.toks, st.s))

\* command::parse
command_parse(ts, s) ==
  With(command_loop(TopState(ts, s, FALSE, None)), LAMBDA st :
     IF st.toks # <<>>
     THEN R(st.v, st.toks, Warn(st.s, ExtraToken(Head(st.toks))))
     ELSE R(st.v, st.toks, st.s))

\* the Option<u64> fields of Limits, in the order they are written
RECURSIVE fmt_opts(_, _, _)
fmt_opts(src, kws, f) ==
  IF kws = <<>> THEN f
  ELSE fmt_opts(src, Tail(kws),
                IF IsSome(src[Head(kws)])
                THEN push_token(push_token(f, Head(kws)),
                                IntToString(Unwrap(src[Head(kws)])))
                ELSE f)

\* the limits arm of command::fmt
limits_fmt(lim, f) ==
  CASE lim.l = "Infinite" -> push_token(f, "infinite")
    [] lim.l = "Clock" ->
         With(push_token(push_token(push_token(push_token(f,
                     "wtime"), IntToString(lim.wtime)), "btime"), IntToString(lim.btime)), LAMBDA f1 :
         With(IF lim.winc # 0
                   THEN push_token(push_token(f1, "winc"), IntToString(lim.winc)) ELSE f1, LAMBDA f2 :
         With(IF lim.binc # 0
                   THEN push_token(push_token(f2, "binc"), IntToString(lim.binc)) ELSE f2, LAMBDA f3 :
            fmt_opts(lim, <<"movestogo">>, f3))))
    [] lim.l = "Mate" -> push_token(push_token(f, "mate"), IntToString(lim.n))
    [] lim.l = "Limits" ->
         fmt_opts(lim, <<"depth", "nodes", "movetime">>,
                  IF IsNone(lim.depth) /\ IsNone(lim.nodes) /\ IsNone(lim.movetime)
                  THEN push_token(f, "infinite") ELSE f)

\* command::fmt
command_fmt(src, f) ==
  CASE src.c = "Uci" -> push_token(f, "uci")
    [] src.c = "Debug" -> push_token(push_token(f, "debug"), IF src.b THEN "on" ELSE "off")
    [] src.c = "IsReady" -> push_token(f, "isready")
    [] src.c = "SetOption" ->
         With(push_str(push_token(push_token(f, "setoption"), "name"), src.name), LAMBDA g :
            IF IsSome(src.value)
            THEN push_str(push_token(g, "value"), Unwrap(src.value)) ELSE g)
    [] src.c = "RegisterLater" -> push_token(push_token(f, "register"), "later")
    [] src.c = "RegisterNow" ->
         push_str(push_token(push_str(push_token(push_token(f, "register"), "name"),
                                      src.name), "code"), src.code)
    [] src.c = "UciNewGame" -> push_token(f, "ucinewgame")
    [] src.c = "Position" ->
         With(push_token(f, "position"), LAMBDA g :
         With(IF src.startpos = InitialBoard THEN push_token(g, "startpos")
                  ELSE push_str(push_token(g, "fen"), RawBoard_to_string(src.startpos)), LAMBDA h :
            movevec_fmt(src.moves, push_token(h, "moves"))))
    [] src.c = "Go" ->
         With(push_token(f, "go"), LAMBDA g :
         With(IF IsSome(src.searchmoves)
                  THEN movevec_fmt(Unwrap(src.searchmoves), push_token(g, "searchmoves"))
                  ELSE g, LAMBDA h :
         With(IF IsSome(src.ponder) THEN push_token(h, "ponder") ELSE h, LAMBDA k :
            limits_fmt(src.limits, k))))
    [] src.c = "Stop" -> push_token(f, "stop")
    [] src.c = "PonderHit" -> push_token(f, "ponderhit")
    [] src.c = "Quit" -> push_token(f, "quit")

\* Parse::parse_line for Command
Command_parse_line(l, s) == LineResult(command_parse(tokenize(l), s))

\* Fmt::fmt_line for Command
Command_fmt_line(v) == command_fmt(v, <<>>)

(***************************************************************************)
(* The values drawn as inputs                                              *)
(***************************************************************************)
\* the sequences over S of length at most n
RECURSIVE SeqsUpTo(_, _)
SeqsUpTo(S, n) ==
  IF n = 0 THEN {<<>>}
  ELSE LET shorter == SeqsUpTo(S, n - 1)
       IN shorter \cup {Append(q, x) : q \in shorter, x \in S}

Builds == {"debug", "release"}

\* typed strings without reserved tokens
Words == {"x", "Hash"}
StrVals == {JoinSp(ts) : ts \in SeqsUpTo(Words, MaxStr)}
NameVals == {JoinSp(ts) : ts \in SeqsUpTo(Words, 1)}

MoveVals == {NullMove, MoveTable["e2e4"], MoveTable["a7a8q"]}
MoveLists == SeqsUpTo(MoveVals, MaxMvs)

CpVals == {I32Min, -1, 0, I32Max}
RelScores ==
  {Cp(x) : x \in CpVals} \cup {RelMate(n, w) : n \in 0..MaxMoves, w \in BOOLEAN}
Bounds == {"Lower", "Upper", "Exact"}

InfoVals ==
  {InfoInt(tag, 1) : tag \in InfoIntTags}
    \cup {InfoMoves(tag, mvs) : tag \in {"Pv", "Refutation"}, mvs \in MoveLists}
    \cup {InfoScore([score |-> sc, bound |-> b]) : sc \in RelScores, b \in Bounds}
    \cup {InfoCurrMove(mv) : mv \in MoveVals}
    \cup {InfoPermille(tag, Permille_new(a)) :
            tag \in {"HashFull", "CpuLoad"}, a \in {0, PermilleMax}}
    \cup {InfoCurrLine(1, mvs) : mvs \in MoveLists}

\* the items drawn after the first item of an info line
InfoMore ==
  {InfoInt("Depth", 1), InfoMoves("Pv", <<MoveTable["e2e4"]>>), InfoMoves("Pv", <<>>),
   InfoScore([score |-> Cp(0), bound |-> "Exact"])}

RECURSIVE InfoLists(_)
InfoLists(n) ==
  IF n = 0 THEN {<<>>}
  ELSE IF n = 1 THEN {<<>>} \cup {<<a>> : a \in InfoVals}
  ELSE LET shorter == InfoLists(n - 1)
       IN shorter \cup {Append(q, x) : q \in shorter \ {<<>>}, x \in InfoMore}

OptBodyVals ==
  {OptCheck(b) : b \in BOOLEAN}
    \cup {OptSpin(d, -1, 1) : d \in {-1, 0}}
    \cup {OptCombo(d, vs) : d \in NameVals, vs \in SeqsUpTo(NameVals, 2)}
    \cup {OptButton}
    \cup {OptString(str) : str \in StrVals}

TriStatusVals == {"Ok", "Checking", "Error"}

MessageVals ==
  {MsgId(w, name) : w \in {"Name", "Author"}, name \in StrVals}
    \cup {MsgUciOk, MsgReadyOk}
    \cup {MsgBestMove(b, p) : b \in MoveVals, p \in {None} \cup {Some(mv) : mv \in MoveVals}}
    \cup {MsgCopyProtection(st) : st \in TriStatusVals}
    \cup {MsgRegistration(st) : st \in TriStatusVals}
    \cup {MsgInfo(info, str) : info \in InfoLists(MaxInfo),
                               str \in {None, Some(<<>>), Some(<<"x">>)}}
    \cup {MsgOption(name, body) : name \in NameVals, body \in OptBodyVals}

Idle == <<>>

(***************************************************************************)
(* SpecMsgRT: a Message is formatted and the line is parsed back           *)
(***************************************************************************)
InitMsgRT ==
  /\ pc = "start"
  /\ build \in Builds
  /\ val \in MessageVals
  /\ line = Idle /\ res = Idle /\ sink = Idle
  /\ toks = Idle /\ moves = Idle /\ iters = 0

FmtMessage ==
  /\ pc = "start"
  /\ line' = Message_fmt_line(val)
  /\ pc' = "formatted"
  /\ UNCHANGED <<build, val, res, sink, toks, moves, iters>>

ParseMessage ==
  /\ pc = "formatted"
  /\ res' = Message_parse_line(line, NewSink("Ignore"))
  /\ pc' = "parsed"
  /\ UNCHANGED <<build, val, line, sink, toks, moves, iters>>

NextMsgRT == FmtMessage \/ ParseMessage

SpecMsgRT == InitMsgRT /\ [][NextMsgRT]_vars

\* C1: for every Message v whose typed strings keep their reserved-token
\* invariants, parsing the line v formats to, with the sink ignored, returns
\* Some(v); this includes Info::Score with Mate of any distance, 0 included,
\* and either win flag, and Option with a String body
C1_MessageRoundTrip ==
  pc = "parsed" => (~res.panicked /\ res.v = Some(val))

(***************************************************************************)
(* SpecCmdRT: a Command is formatted and the line is parsed back           *)
(***************************************************************************)
OptVals(S) == {None} \cup {Some(x) : x \in S}

GoLimitsVals ==
  {LimInfinite}
    \cup {LimClock(1, 2, wi, bi, mtg) : wi \in {0, 1}, bi \in {0, 1}, mtg \in OptVals({1})}
    \cup {LimMate(n) : n \in {0, 1}}
    \cup {LimLimits(d, n, mt) : d \in OptVals({1}), n \in OptVals({2}), mt \in OptVals({0})}

CommandVals ==
  {CmdUci, CmdIsReady, CmdUciNewGame, CmdStop, CmdPonderHit, CmdQuit, CmdRegisterLater}
    \cup {CmdDebug(b) : b \in BOOLEAN}
    \cup {CmdSetOption(name, value) : name \in NameVals, value \in OptVals(StrVals)}
    \cup {CmdRegisterNow(name, code) : name \in NameVals, code \in StrVals}
    \cup {CmdPosition(b, mvs) : b \in BoardVals, mvs \in MoveLists}
    \cup {CmdGo(sm, po, lim) : sm \in OptVals(MoveLists), po \in OptVals({TRUE}),
                               lim \in GoLimitsVals}

InitCmdRT ==
  /\ pc = "start"
  /\ build \in Builds
  /\ val \in CommandVals
  /\ line = Idle /\ res = Idle /\ sink = Idle
  /\ toks = Idle /\ moves = Idle /\ iters = 0

FmtCommand ==
  /\ pc = "start"
  /\ line' = Command_fmt_line(val)
  /\ pc' = "formatted"
  /\ UNCHANGED <<build, val, res, sink, toks, moves, iters>>

ParseCommand ==
  /\ pc = "formatted"
  /\ res' = Command_parse_line(line, NewSink("Ignore"))
  /\ pc' = "parsed"
  /\ UNCHANGED <<build, val, line, sink, toks, moves, iters>>

NextCmdRT == FmtCommand \/ ParseCommand

SpecCmdRT == InitCmdRT /\ [][NextCmdRT]_vars

\* C2: for every Command v whose typed strings keep their reserved-token
\* invariants, parsing the line v formats to, with the sink ignored, returns
\* Some(v); this includes Go with every combination of present and absent
\* parameters
C2_CommandRoundTrip ==
  pc = "parsed" => (~res.panicked /\ res.v = Some(val))

(***************************************************************************)
(* SpecScore: the conversions, the comparisons and the sorting of scores   *)
(***************************************************************************)
\* every RelScore and every AbsScore of the widths of the model
AllRelScores ==
  {Cp(x) : x \in I32Min..I32Max} \cup {RelMate(n, w) : n \in 0..U32Max, w \in BOOLEAN}
AllAbsScores ==
  {Cp(x) : x \in I32Min..I32Max} \cup {AbsMate(n, c) : n \in 0..U32Max, c \in Colors}

\* the scores the sorted lists are drawn from
SortRelScores ==
  {Cp(I32Min), Cp(0), Cp(I32Max)}
    \cup {RelMate(n, w) : n \in {0, MaxMoves, U32Max}, w \in BOOLEAN}
SortAbsScores ==
  {Cp(I32Min), Cp(0), Cp(I32Max)}
    \cup {AbsMate(n, c) : n \in {0, MaxMoves, U32Max}, c \in Colors}

InitScore ==
  /\ pc = "start"
  /\ build \in Builds
  /\ \/ \E r \in AllRelScores, sd \in Colors :
          val = [op |-> "convert", r |-> r, side |-> sd]
     \/ \E a \in AllRelScores, b \in AllRelScores :
          val = [op |-> "cmp_rel", a |-> a, b |-> b]
     \/ \E a \in AllAbsScores, b \in AllAbsScores :
          val = [op |-> "cmp_abs", a |-> a, b |-> b]
     \/ \E l \in SeqsUpTo(SortRelScores, MaxSort) : val = [op |-> "sort_rel", l |-> l]
     \/ \E l \in SeqsUpTo(SortAbsScores, MaxSort) : val = [op |-> "sort_abs", l |-> l]
  /\ line = Idle /\ res = Idle /\ sink = Idle
  /\ toks = Idle /\ moves = Idle /\ iters = 0

\* r.abs_to(s).rel_to(s), r.abs_to(s).rel_to(s.inv()) and r.inv()
Convert ==
  /\ pc = "start" /\ val.op = "convert"
  /\ res' = [same |-> AbsScore_rel_to(RelScore_abs_to(val.r, val.side), val.side),
             other |-> AbsScore_rel_to(RelScore_abs_to(val.r, val.side),
                                       Color_inv(val.side)),
             inv |-> RelScore_inv(val.r)]
  /\ pc' = "done"
  /\ UNCHANGED <<build, val, line, sink, toks, moves, iters>>

\* a.cmp(&b) of two RelScore
CompareRel ==
  /\ pc = "start" /\ val.op = "cmp_rel"
  /\ res' = RelScore_cmp(val.a, val.b)
  /\ pc' = "done"
  /\ UNCHANGED <<build, val, line, sink, toks, moves, iters>>

\* a.cmp(&b) of two AbsScore
CompareAbs ==
  /\ pc = "start" /\ val.op = "cmp_abs"
  /\ res' = AbsScore_cmp(val.a, val.b)
  /\ pc' = "done"
  /\ UNCHANGED <<build, val, line, sink, toks, moves, iters>>

\* l.sort() of a vector of RelScore
SortRel ==
  /\ pc = "start" /\ val.op = "sort_rel"
  /\ res' = Sort("rel", val.l)
  /\ pc' = "done"
  /\ UNCHANGED <<build, val, line, sink, toks, moves, iters>>

\* l.sort() of a vector of AbsScore
SortAbs ==
  /\ pc = "start" /\ val.op = "sort_abs"
  /\ res' = Sort("abs", val.l)
  /\ pc' = "done"
  /\ UNCHANGED <<build, val, line, sink, toks, moves, iters>>

NextScore == Convert \/ CompareRel \/ CompareAbs \/ SortRel \/ SortAbs

SpecScore == InitScore /\ [][NextScore]_vars

\* inv as the laws state it: centipawns negated, win flipped
C5_Negated(r) == IF r.t = "Cp" THEN Cp(-r.cp) ELSE RelMate(r.moves, ~r.win)

\* C5: for every RelScore r (Cp of every i32, Mate of every distance and
\* either win flag) and every color s, r.abs_to(s).rel_to(s) = r and
\* r.abs_to(s).rel_to(s.inv()) = r.inv(), where inv negates the centipawns
\* and flips win
C5_ConversionLaws ==
  (pc = "done" /\ val.op = "convert") =>
    /\ res.same = val.r
    /\ res.other = res.inv
    /\ res.inv = C5_Negated(val.r)

\* the order of RelScore in words: a is strictly before b
C6_Before(a, b) ==
  \/ a.t = "Mate" /\ ~a.win /\ b.t = "Cp"
  \/ a.t = "Mate" /\ ~a.win /\ b.t = "Mate" /\ b.win
  \/ a.t = "Cp" /\ b.t = "Mate" /\ b.win
  \/ a.t = "Cp" /\ b.t = "Cp" /\ a.cp < b.cp
  \/ a.t = "Mate" /\ b.t = "Mate" /\ ~a.win /\ ~b.win /\ a.moves < b.moves
  \/ a.t = "Mate" /\ b.t = "Mate" /\ a.win /\ b.win /\ a.moves > b.moves

\* l2 holds the elements of l1, each as often as l1 does
IsPermutation(l1, l2) ==
  /\ Len(l1) = Len(l2)
  /\ \A x \in {l1[i] : i \in 1..Len(l1)} :
       Cardinality({i \in 1..Len(l1) : l1[i] = x})
         = Cardinality({i \in 1..Len(l2) : l2[i] = x})

\* C6: the order of RelScore is total and consistent with equality: every
\* losing mate < every Cp < every winning mate, Cp by the integer, a losing
\* mate in fewer moves is smaller, a winning mate in fewer moves is larger;
\* sorting a list of RelScore yields this order
C6_RelScoreOrder ==
  /\ (pc = "done" /\ val.op = "cmp_rel") =>
       /\ res = "Less" <=> C6_Before(val.a, val.b)
       /\ res = "Greater" <=> C6_Before(val.b, val.a)
       /\ res = "Equal" <=> val.a = val.b
  /\ (pc = "done" /\ val.op = "sort_rel") =>
       /\ IsPermutation(val.l, res)
       /\ \A i \in 1..(Len(res) - 1) : res[i] = res[i + 1] \/ C6_Before(res[i], res[i + 1])

C6_Witness ==
  /\ pc = "done" /\ val.op = "sort_rel"
  /\ val.l = <<RelMate(0, TRUE), Cp(0), RelMate(0, FALSE)>>
  /\ res = <<RelMate(0, FALSE), Cp(0), RelMate(0, TRUE)>>

\* the order of AbsScore in words: a is strictly before b
C7_Before(a, b) ==
  \/ a.t = "Mate" /\ a.winner = "Black" /\ b.t = "Cp"
  \/ a.t = "Mate" /\ a.winner = "Black" /\ b.t = "Mate" /\ b.winner = "White"
  \/ a.t = "Cp" /\ b.t = "Mate" /\ b.winner = "White"
  \/ a.t = "Cp" /\ b.t = "Cp" /\ a.cp < b.cp
  \/ a.t = "Mate" /\ b.t = "Mate" /\ a.winner = "Black" /\ b.winner = "Black"
       /\ a.moves < b.moves
  \/ a.t = "Mate" /\ b.t = "Mate" /\ a.winner = "White" /\ b.winner = "White"
       /\ a.moves > b.moves

\* the view of White of an AbsScore, as the claim states it
C7_White(a) == IF a.t = "Cp" THEN Cp(a.cp) ELSE RelMate(a.moves, a.winner = "White")

\* the result of comparing by C6_Before
C7_RelOrder(a, b) ==
  IF C6_Before(a, b) THEN "Less" ELSE IF C6_Before(b, a) THEN "Greater" ELSE "Equal"

\* C7: a.cmp(b) of two AbsScore equals a.rel_to(White).cmp(b.rel_to(White));
\* hence the mates won by Black sort first (fewest moves first), then Cp
\* ascending, then the mates won by White (most moves first, mate in 0 last)
C7_AbsScoreOrder ==
  /\ (pc = "done" /\ val.op = "cmp_abs") =>
       /\ res = C7_RelOrder(C7_White(val.a), C7_White(val.b))
       /\ res = "Less" <=> C7_Before(val.a, val.b)
       /\ res = "Equal" <=> val.a = val.b
  /\ (pc = "done" /\ val.op = "sort_abs") =>
       /\ IsPermutation(val.l, res)
       /\ \A i \in 1..(Len(res) - 1) : res[i] = res[i + 1] \/ C7_Before(res[i], res[i + 1])

C7_Witness ==
  /\ pc = "done" /\ val.op = "sort_abs"
  /\ val.l = <<AbsMate(0, "White"), Cp(0), AbsMate(0, "Black")>>
  /\ res = <<AbsMate(0, "Black"), Cp(0), AbsMate(0, "White")>>

(***************************************************************************)
(* SpecPermille: the ways a Permille is made                               *)
(***************************************************************************)
\* the u64 amounts given to new_truncated, the u16 amounts given to new,
\* and the tokens read after hashfull and cpuload
U64Amounts == (0..MaxAmount) \cup {U16Mod - 1, U16Mod, U16Mod + PermilleMax, U64Max}
U16Amounts == (0..MaxAmount) \cup {U16Mod - 1}
PermilleToks == {ToString(n) : n \in {0, 1, PermilleMax - 1, PermilleMax, PermilleMax + 1,
                                      PermilleMax + 500, I64Max, I64Max + 1}}
                  \cup {"-1", "x"}

PermilleInputs ==
  {[op |-> "new", amount |-> a] : a \in U16Amounts}
    \cup {[op |-> "new_truncated", amount |-> a] : a \in U64Amounts}
    \cup {[op |-> "parse", kw |-> kw, tok |-> t] :
            kw \in {"hashfull", "cpuload"}, t \in PermilleToks}

InitPermille ==
  /\ pc = "start"
  /\ build \in Builds
  /\ val \in PermilleInputs
  /\ line = Idle /\ res = Idle /\ sink = Idle
  /\ toks = Idle /\ moves = Idle /\ iters = 0

\* Permille::new
PermilleNew ==
  /\ pc = "start" /\ val.op = "new"
  /\ res' = Permille_new(val.amount)
  /\ pc' = "done"
  /\ UNCHANGED <<build, val, line, sink, toks, moves, iters>>

\* Permille::new_truncated
PermilleNewTruncated ==
  /\ pc = "start" /\ val.op = "new_truncated"
  /\ res' = Permille_new_truncated(val.amount)
  /\ pc' = "done"
  /\ UNCHANGED <<build, val, line, sink, toks, moves, iters>>

\* info::parse of hashfull or cpuload and its value
PermilleParse ==
  /\ pc = "start" /\ val.op = "parse"
  /\ LET r == info_parse(<<val.kw, val.tok>>, NewSink("All"))
     IN /\ res' = r.v
        /\ sink' = r.s
  /\ pc' = "done"
  /\ UNCHANGED <<build, val, line, toks, moves, iters>>

NextPermille == PermilleNew \/ PermilleNewTruncated \/ PermilleParse

SpecPermille == InitPermille /\ [][NextPermille]_vars

\* C8: for every u64 x, Permille::new_truncated(x).amount() = min(x, 1000);
\* every Permille made by new, by new_truncated or by parsing hashfull or
\* cpuload has an amount of at most 1000; Permille::new panics on an amount
\* above 1000
C8_PermilleRange ==
  pc = "done" =>
    /\ val.op = "new_truncated" =>
         Permille_amount(res) = (IF val.amount < 1000 THEN val.amount ELSE 1000)
    /\ val.op = "new" =>
         IF val.amount > 1000 THEN res = Panic
         ELSE res # Panic /\ Permille_amount(res) = val.amount
    /\ (val.op = "parse" /\ IsSome(res)) => Permille_amount(Unwrap(res).p) <= 1000

C8_Witness ==
  /\ pc = "done" /\ val.op = "new_truncated"
  /\ val.amount = U16Mod + PermilleMax
  /\ res = [permille |-> PermilleMax]

(***************************************************************************)
(* SpecLoops: the loops over the token slice, one iteration per step       *)
(***************************************************************************)
LoopKinds ==
  {"movevec", "parse_move_vec", "info", "go", "parse_go", "message", "command"}

LoopToks ==
  {"pv", "e2e4", "z9z9", "foo", "depth", "1", "string", "searchmoves", "uciok", "go"}

\* the state a loop starts in
LoopInit(kind, ts) ==
  CASE kind \in {"movevec", "parse_move_vec"} -> LoopState(ts, <<>>, NewSink("All"), FALSE)
    [] kind = "info" -> InfoLoopState(ts, <<>>, None, NewSink("All"), FALSE)
    [] kind \in {"go", "parse_go"} -> GoLoopState(ts, GoNone, NewSink("All"), FALSE)
    [] kind \in {"message", "command"} -> TopState(ts, NewSink("All"), FALSE, None)

InitLoops ==
  /\ pc = "loop"
  /\ build \in {"release"}
  /\ val \in [kind : LoopKinds, until_first_error : BOOLEAN]
  /\ (val.until_first_error => val.kind \in {"movevec", "parse_move_vec"})
  /\ toks \in SeqsUpTo(LoopToks, MaxLine)
  /\ res = LoopInit(val.kind, toks)
  /\ line = Idle /\ sink = Idle /\ moves = Idle
  /\ iters = 0

\* one iteration of the while loop of movevec::parse (movevec.rs)
MoveVecIter ==
  /\ pc = "loop" /\ val.kind = "movevec"
  /\ iters < MaxIters
  /\ res' = movevec_iter(res, val.until_first_error)
  /\ toks' = res'.toks
  /\ iters' = iters + 1
  /\ pc' = IF res'.done THEN "done" ELSE "loop"
  /\ UNCHANGED <<build, val, line, sink, moves>>

\* one iteration of the while loop of parse_move_vec (parse.rs)
ParseMoveVecIter ==
  /\ pc = "loop" /\ val.kind = "parse_move_vec"
  /\ iters < MaxIters
  /\ res' = parse_move_vec_iter(res, val.until_first_error)
  /\ toks' = res'.toks
  /\ iters' = iters + 1
  /\ pc' = IF res'.done THEN "done" ELSE "loop"
  /\ UNCHANGED <<build, val, line, sink, moves>>

\* one iteration of the while loop of the info branch of message::parse
InfoIter ==
  /\ pc = "loop" /\ val.kind = "info"
  /\ iters < MaxIters
  /\ res' = info_iter(res)
  /\ toks' = res'.toks
  /\ iters' = iters + 1
  /\ pc' = IF res'.done THEN "done" ELSE "loop"
  /\ UNCHANGED <<build, val, line, sink, moves>>

\* one iteration of the while loop of go::parse (go.rs)
GoIter ==
  /\ pc = "loop" /\ val.kind = "go"
  /\ iters < MaxIters
  /\ res' = go_iter(res)
  /\ toks' = res'.toks
  /\ iters' = iters + 1
  /\ pc' = IF res'.done THEN "done" ELSE "loop"
  /\ UNCHANGED <<build, val, line, sink, moves>>

\* one iteration of the while loop of parse_go (command.rs)
ParseGoIter ==
  /\ pc = "loop" /\ val.kind = "parse_go"
  /\ iters < MaxIters
  /\ res' = parse_go_iter(res)
  /\ toks' = res'.toks
  /\ iters' = iters + 1
  /\ pc' = IF res'.done THEN "done" ELSE "loop"
  /\ UNCHANGED <<build, val, line, sink, moves>>

\* one iteration of the loop of message::parse
MessageIter ==
  /\ pc = "loop" /\ val.kind = "message"
  /\ iters < MaxIters
  /\ res' = message_iter(res)
  /\ toks' = res'.toks
  /\ iters' = iters + 1
  /\ pc' = IF res'.done THEN "done" ELSE "loop"
  /\ UNCHANGED <<build, val, line, sink, moves>>

\* one iteration of the loop of command::parse
CommandIter ==
  /\ pc = "loop" /\ val.kind = "command"
  /\ iters < MaxIters
  /\ res' = command_iter(res)
  /\ toks' = res'.toks
  /\ iters' = iters + 1
  /\ pc' = IF res'.done THEN "done" ELSE "loop"
  /\ UNCHANGED <<build, val, line, sink, moves>>

NextLoops ==
  \/ MoveVecIter
  \/ ParseMoveVecIter
  \/ InfoIter
  \/ GoIter
  \/ ParseGoIter
  \/ MessageIter
  \/ CommandIter

SpecLoops == InitLoops /\ [][NextLoops]_vars

\* C3: every loop over the token slice (the loop of the move vector, of the
\* info items, of the go keywords, of the top-level keywords) strictly
\* shrinks the slice left on each iteration or exits, so that parse_line
\* terminates on every line, a move list followed by a token that does not
\* look like a move included
C3_LoopsShrink ==
  [][pc = "loop" => (Len(toks') < Len(toks) \/ pc' = "done")]_vars

(***************************************************************************)
(* SpecParse: a line is parsed with each of the sinks                      *)
(***************************************************************************)
LineToks == {"x", "uci", "uciok", "go", "wtime", "1", "info", "pv", "debug"}

\* the tokens of a parameter of go, with a valid value
GoItem(kw) ==
  CASE kw \in {"infinite", "ponder"} -> <<kw>>
    [] kw = "searchmoves" -> <<kw, "e2e4">>
    [] OTHER -> <<kw, "1">>

GoOrder == <<"searchmoves", "ponder", "infinite">> \o GoIntOrder

\* the line of the parameters of the set items, in the order of GoOrder
RECURSIVE GoLine(_, _)
GoLine(items, order) ==
  IF order = <<>> THEN <<>>
  ELSE (IF Head(order) \in items THEN GoItem(Head(order)) ELSE <<>>)
         \o GoLine(items, Tail(order))

InitParse ==
  /\ pc = "start"
  /\ build \in {"release"}
  /\ \/ \E d \in {"Command", "Message"}, ts \in SeqsUpTo(LineToks, MaxLine) :
          val = [dir |-> d, ts |-> ts, items |-> {}]
     \/ \E it \in SUBSET GoKw :
          val = [dir |-> "Command", ts |-> <<"go">> \o GoLine(it, GoOrder), items |-> it]
     \/ \E it \in SUBSET GoKw :
          val = [dir |-> "Go", ts |-> GoLine(it, GoOrder), items |-> it]
  /\ line = JoinSp(val.ts)
  /\ res = Idle /\ sink = Idle
  /\ toks = Idle /\ moves = Idle /\ iters = 0

\* Command::parse_line, once with each sink
ParseCommandLine ==
  /\ pc = "start" /\ val.dir = "Command"
  /\ res' = [k \in SinkKinds |-> Command_parse_line(line, NewSink(k))]
  /\ pc' = "parsed"
  /\ UNCHANGED <<build, val, line, sink, toks, moves, iters>>

\* Message::parse_line, once with each sink
ParseMessageLine ==
  /\ pc = "start" /\ val.dir = "Message"
  /\ res' = [k \in SinkKinds |-> Message_parse_line(line, NewSink(k))]
  /\ pc' = "parsed"
  /\ UNCHANGED <<build, val, line, sink, toks, moves, iters>>

\* go::parse of the tokens after go, once with each sink
ParseGo ==
  /\ pc = "start" /\ val.dir = "Go"
  /\ res' = [k \in SinkKinds |-> LineResult(go_parse(tokenize(line), NewSink(k)))]
  /\ pc' = "parsed"
  /\ UNCHANGED <<build, val, line, sink, toks, moves, iters>>

NextParse == ParseCommandLine \/ ParseMessageLine \/ ParseGo

SpecParse == InitParse /\ [][NextParse]_vars

\* the top-level keywords of the direction of the line
C4_Keywords == IF val.dir = "Command" THEN CommandKw ELSE MessageKw
C4_Parse(ts) ==
  IF val.dir = "Command"
  THEN Command_parse_line(JoinSp(ts), NewSink("All"))
  ELSE Message_parse_line(JoinSp(ts), NewSink("All"))

\* C4 as stated: parse_line returns None whenever the first token of the
\* line is not a known top-level keyword of the direction, and whenever the
\* line has no tokens; an unrecognized token at the start is not skipped
C4_FirstTokenFatal ==
  (pc = "parsed" /\ val.dir \in {"Command", "Message"}
     /\ (val.ts = <<>> \/ Head(val.ts) \notin C4_Keywords))
    => res["All"].v = None

\* C4, amended: parse_line returns None when no token of the line is a known
\* top-level keyword of the direction (a line without tokens included); the
\* unrecognized tokens before the first known keyword are skipped, each with
\* an UnexpectedToken warning, and the line then parses as the line that
\* starts at that keyword does
C4_SkipsLeading ==
  (pc = "parsed" /\ val.dir \in {"Command", "Message"}) =>
    LET ts == val.ts
        r == res["All"]
    IN /\ (\A i \in 1..Len(ts) : ts[i] \notin C4_Keywords) => r.v = None
       /\ \A k \in 1..Len(ts) :
            (ts[k] \in C4_Keywords /\ \A i \in 1..(k - 1) : ts[i] \notin C4_Keywords) =>
              LET rest == C4_Parse(SubSeq(ts, k, Len(ts)))
              IN /\ r.v = rest.v
                 /\ r.s.offered =
                      [i \in 1..(k - 1) |-> UnexpectedToken(ts[i])] \o rest.s.offered

C4_Witness ==
  /\ pc = "parsed" /\ val.dir = "Command"
  /\ val.ts = <<"x", "uci">>
  /\ res["All"].v = Some(CmdUci)
  /\ res["All"].s.store = <<UnexpectedToken("x")>>

\* C9: the value parse_line returns and the sequence of the warnings it
\* offers to the sink are the same whichever sink is given; the parser never
\* branches on what the sink did with a warning
C9_SinkIndependent ==
  pc = "parsed" =>
    \A k \in SinkKinds :
      /\ res[k].v = res["Ignore"].v
      /\ res[k].panicked = res["Ignore"].panicked
      /\ res[k].s.offered = res["Ignore"].s.offered

C9_Witness ==
  /\ pc = "parsed" /\ val.dir = "Command"
  /\ IsSome(res["All"].v)
  /\ Len(res["All"].s.store) = 2
  /\ Len(res["First"].s.store) = 1
  /\ res["Last"].s.store # res["First"].s.store
  /\ res["Ignore"].s.store = <<>>

\* the line of the parameters of go: after go for Command::parse_line, alone
\* for go::parse
C10_Line ==
  IF val.dir = "Go" THEN GoLine(val.items, GoOrder)
  ELSE <<"go">> \o GoLine(val.items, GoOrder)

\* the parameter kw is present in the value v of go
C10_Present(v, kw) ==
  IF val.dir = "Go" \/ kw \in {"searchmoves", "ponder"} THEN IsSome(v[kw])
  ELSE CASE kw = "infinite" -> v.limits.l = "Infinite"
         [] kw \in {"wtime", "btime"} -> v.limits.l = "Clock"
         [] kw \in {"winc", "binc"} -> v.limits.l = "Clock" /\ v.limits[kw] = 1
         [] kw = "movestogo" -> v.limits.l = "Clock" /\ IsSome(v.limits.movestogo)
         [] kw = "mate" -> v.limits.l = "Mate"
         [] OTHER -> v.limits.l = "Limits" /\ IsSome(v.limits[kw])

\* C10: parse_go preserves every parameter as parsed, without precedence
\* collapse: each of the twelve parameters is present in the result if and
\* only if its keyword was parsed with a valid value, whichever other
\* parameters are present, and no warning is given because several kinds of
\* limits coexist or because none is given
C10_GoPreserved ==
  (pc = "parsed" /\ val.dir \in {"Go", "Command"} /\ val.ts = C10_Line) =>
    LET r == res["All"]
        v == IF val.dir = "Go" THEN r.v ELSE Unwrap(r.v)
    IN /\ \A kw \in GoKw :
            C10_Present(v, kw) <=> kw \in val.items
       /\ \A i \in 1..Len(r.s.offered) : r.s.offered[i].e \notin {"GoConflict", "GoNoLimits"}

(***************************************************************************)
(* SpecGoLine: a line of go parameters is parsed, and the value formatted  *)
(***************************************************************************)
MaxGoItems == 3
MaxGoVal == 2

\* the move given to the searchmoves group with number n
GoMove(n) == IF n % 2 = 1 THEN "e2e4" ELSE "a7a8q"

\* the tokens of one group: the keyword and, where it takes one, its value
GoGroup(item) ==
  CASE item.kw \in {"infinite", "ponder"} -> <<item.kw>>
    [] item.kw = "searchmoves" -> <<item.kw, GoMove(item.n)>>
    [] OTHER -> <<item.kw, IntToString(item.n)>>

RECURSIVE GoGroups(_)
GoGroups(items) ==
  IF items = <<>> THEN <<>> ELSE GoGroup(Head(items)) \o GoGroups(Tail(items))

\* the line given to the parser: after go for Command::parse_line
GoInputLine(dir, items) ==
  JoinSp((IF dir = "Command" THEN <<"go">> ELSE <<>>) \o GoGroups(items))

\* the clock line of the scenario with increments wi and bi
GoClockItems(w, b, wi, bi, n) ==
  <<[kw |-> "wtime", n |-> w], [kw |-> "btime", n |-> b], [kw |-> "winc", n |-> wi],
    [kw |-> "binc", n |-> bi], [kw |-> "movestogo", n |-> n]>>

InitGoLine ==
  /\ pc = "start"
  /\ build \in {"release"}
  /\ \/ \E d \in {"Go", "Command"}, kws \in SeqsUpTo(GoKw, MaxGoItems) :
          val = [dir |-> d, clock |-> FALSE,
                 items |-> [i \in 1..Len(kws) |-> [kw |-> kws[i], n |-> i]]]
     \/ \E d \in {"Go", "Command"}, w \in 1..MaxGoVal, b \in 1..MaxGoVal,
           wi \in {0, 1}, bi \in {0, 1}, n \in 1..MaxGoVal :
          val = [dir |-> d, clock |-> TRUE, items |-> GoClockItems(w, b, wi, bi, n)]
  /\ line = GoInputLine(val.dir, val.items)
  /\ res = Idle /\ sink = Idle
  /\ toks = Idle /\ moves = Idle /\ iters = 0

\* go::parse of the tokens of the line
GoLineParse ==
  /\ pc = "start" /\ val.dir = "Go"
  /\ res' = LineResult(go_parse(tokenize(line), NewSink("All")))
  /\ pc' = "parsed"
  /\ UNCHANGED <<build, val, line, sink, toks, moves, iters>>

\* Command::parse_line of the line
GoLineParseCommand ==
  /\ pc = "start" /\ val.dir = "Command"
  /\ res' = Command_parse_line(line, NewSink("All"))
  /\ pc' = "parsed"
  /\ UNCHANGED <<build, val, line, sink, toks, moves, iters>>

\* go::fmt of the parsed value into an empty buffer
GoLineFmt ==
  /\ pc = "parsed" /\ val.dir = "Go"
  /\ line' = go_fmt(res.v, <<>>)
  /\ pc' = "formatted"
  /\ UNCHANGED <<build, val, res, sink, toks, moves, iters>>

\* Command::fmt_line of the parsed value
GoLineFmtCommand ==
  /\ pc = "parsed" /\ val.dir = "Command" /\ IsSome(res.v)
  /\ line' = Command_fmt_line(Unwrap(res.v))
  /\ pc' = "formatted"
  /\ UNCHANGED <<build, val, res, sink, toks, moves, iters>>

NextGoLine == GoLineParse \/ GoLineParseCommand \/ GoLineFmt \/ GoLineFmtCommand

SpecGoLine == InitGoLine /\ [][NextGoLine]_vars

\* the positions of the groups of keyword kw in the line
C11_Occurrences(kw) == {i \in 1..Len(val.items) : val.items[i].kw = kw}

\* the Duplicate warnings that name kw, among the warnings given
C11_Duplicates(kw) ==
  {i \in 1..Len(res.s.offered) :
     /\ res.s.offered[i].e \in {"Duplicate", "GoDuplicate"}
     /\ res.s.offered[i].name = kw}

\* the value the group of number n gives to the field of kw
C11_FieldValue(kw, n) ==
  CASE kw \in {"infinite", "ponder"} -> TRUE
    [] kw = "searchmoves" -> <<MoveTable[GoMove(n)]>>
    [] OTHER -> n

\* the parsed value of go, as the record of its fields where it has them
C11_Fields == IF val.dir = "Go" THEN res.v ELSE Unwrap(res.v)
C11_FieldsOf == IF val.dir = "Go" THEN GoKw ELSE {"searchmoves", "ponder"}

\* C11: for each of the twelve keywords of go, every occurrence after the
\* first gives a Duplicate warning that names the keyword, and the field then
\* holds the value of the last occurrence; a keyword that occurs once gives no
\* Duplicate warning, whatever other keywords the line has
C11_DuplicateWarns ==
  (pc = "parsed" /\ ~val.clock) =>
    \A kw \in GoKw :
      LET occ == C11_Occurrences(kw)
      IN /\ Cardinality(occ) >= 2 => Cardinality(C11_Duplicates(kw)) = Cardinality(occ) - 1
         /\ Cardinality(occ) = 1 => C11_Duplicates(kw) = {}
         /\ (Cardinality(occ) >= 2 /\ kw \in C11_FieldsOf) =>
              \E last \in occ :
                /\ \A i \in occ : i <= last
                /\ C11_Fields[kw] = Some(C11_FieldValue(kw, last))

\* no keyword has two groups in the line
C12_DuplicateFree ==
  \A i \in 1..Len(val.items), j \in 1..Len(val.items) :
    val.items[i].kw = val.items[j].kw => i = j

\* the place of a keyword in the fixed order
C12_Place(kw) == CHOOSE i \in 1..Len(GoOrder) : GoOrder[i] = kw

\* the groups of the line put in the fixed order
RECURSIVE C12_Ordered(_, _)
C12_Ordered(items, order) ==
  IF order = <<>> THEN <<>>
  ELSE LET here == {i \in 1..Len(items) : items[i].kw = Head(order)}
       IN (IF here = {} THEN <<>> ELSE GoGroup(items[CHOOSE i \in here : TRUE]))
            \o C12_Ordered(items, Tail(order))

\* the groups i and i + 1 exchanged
C12_Swap(items, i) ==
  [k \in 1..Len(items) |->
     IF k = i THEN items[i + 1] ELSE IF k = i + 1 THEN items[i] ELSE items[k]]

\* the line of items parsed and formatted
C12_Canonical(dir, items) ==
  IF dir = "Go"
  THEN go_fmt(go_parse(tokenize(GoInputLine(dir, items)), NewSink("All")).v, <<>>)
  ELSE Command_fmt_line(Unwrap(Command_parse_line(GoInputLine(dir, items),
                                                  NewSink("All")).v))

\* the keywords of go in the formatted line, in the order they are written
C12_Written == SelectSeq(tokenize(line), LAMBDA t : t \in GoKw)

\* C12: the formatter of go writes the parameters of the value in the fixed
\* order searchmoves, ponder, infinite, wtime, btime, winc, binc, movestogo,
\* mate, depth, nodes, movetime, the durations as integer milliseconds: the
\* line go::fmt writes for a parsed line without duplicates is the groups of
\* that line put in the fixed order, and two lines without duplicates that
\* differ in the order of two groups parse and format to the same line
C12_CanonicalOrder ==
  (pc = "formatted" /\ C12_DuplicateFree) =>
    /\ \A i \in 1..Len(C12_Written), j \in 1..Len(C12_Written) :
         i < j => C12_Place(C12_Written[i]) < C12_Place(C12_Written[j])
    /\ val.dir = "Go" => line = JoinSp(C12_Ordered(val.items, GoOrder))
    /\ \A i \in 1..(Len(val.items) - 1) :
         C12_Canonical(val.dir, C12_Swap(val.items, i)) = line

C12_Witness ==
  /\ pc = "formatted" /\ val.dir = "Go"
  /\ val.items = <<[kw |-> "movetime", n |-> 1], [kw |-> "ponder", n |-> 2],
                   [kw |-> "searchmoves", n |-> 3]>>
  /\ line = JoinSp(<<"searchmoves", "e2e4", "ponder", "movetime", "1">>)

\* C13: parsing the line that gives wtime W, btime B, winc 0, binc 0 and
\* movestogo N gives no warning, and formatting the parsed value writes
\* wtime W btime B movestogo N: the zero increments are not written
C13_ZeroIncrements ==
  (pc = "formatted" /\ val.clock /\ val.items[3].n = 0 /\ val.items[4].n = 0) =>
    /\ res.s.offered = <<>>
    /\ line = GoInputLine(val.dir, <<val.items[1], val.items[2], val.items[5]>>)

(***************************************************************************)
(* SpecOptBody: the body of an option is formatted and parsed back         *)
(***************************************************************************)
SpinVals == {-1, 0, 1}

InitOptBody ==
  /\ pc = "start"
  /\ build \in {"release"}
  /\ \/ \E b \in BOOLEAN : val = OptCheck(b)
     \/ \E d \in SpinVals, mn \in SpinVals, mx \in SpinVals : val = OptSpin(d, mn, mx)
     \/ \E d \in StrVals, vs \in SeqsUpTo(NameVals, 2) : val = OptCombo(d, vs)
     \/ val = OptButton
     \/ \E str \in StrVals : val = OptString(str)
  /\ line = Idle /\ res = Idle /\ sink = Idle
  /\ toks = Idle /\ moves = Idle /\ iters = 0

\* optbody::fmt into an empty buffer
FmtOptBody ==
  /\ pc = "start"
  /\ line' = optbody_fmt(val, <<>>)
  /\ pc' = "formatted"
  /\ UNCHANGED <<build, val, res, sink, toks, moves, iters>>

\* optbody::parse of the tokens of the line
ParseOptBody ==
  /\ pc = "formatted"
  /\ res' = LineResult(optbody_parse(tokenize(line), NewSink("All")))
  /\ pc' = "parsed"
  /\ UNCHANGED <<build, val, line, sink, toks, moves, iters>>

NextOptBody == FmtOptBody \/ ParseOptBody

SpecOptBody == InitOptBody /\ [][NextOptBody]_vars

\* the tokens of var <v> for each variant of a combo
RECURSIVE C14_Vars(_)
C14_Vars(vs) ==
  IF vs = <<>> THEN <<>> ELSE <<"var">> \o tokenize(Head(vs)) \o C14_Vars(Tail(vs))

\* the tokens the body is to be written as
C14_Emitted(b) ==
  CASE b.o = "Check" -> <<"check", "default", IF b.b THEN "true" ELSE "false">>
    [] b.o = "Spin" ->
         <<"spin", "default", IntToString(b.default), "min", IntToString(b.min),
           "max", IntToString(b.max)>>
    [] b.o = "Combo" -> <<"combo", "default">> \o tokenize(b.defvar) \o C14_Vars(b.vars)
    [] b.o = "Button" -> <<"button">>
    [] b.o = "String" -> <<"string", "default">> \o tokenize(b.str)

\* C14: the formatter mirrors the parser of the body of an option for every
\* variant: Check(b) is written check default <b>, Spin spin default <d> min
\* <a> max <b>, Combo combo default <d> and var <v> for each variant, Button
\* button, String(s) string default <s>; the parser accepts each line written
\* and returns the same body
C14_OptBodyMirror ==
  pc = "parsed" =>
    /\ tokenize(line) = C14_Emitted(val)
    /\ res.v = Some(val)

\* the raw value N of the token read after hashfull or cpuload
C15_Raw == NumVal[val.tok]

\* C15: parsing hashfull N or cpuload N gives the warning
\* PermilleTruncated{src_value: N} exactly when N exceeds 1000, none for
\* N <= 1000, and the Permille stored is min(N, 1000), which formats as that
\* number
C15_TruncatedWarns ==
  (pc = "done" /\ val.op = "parse" /\ val.tok \in NumToks /\ C15_Raw \in 0..U64Max) =>
    /\ IsSome(res)
    /\ Permille_amount(Unwrap(res).p) = Min(C15_Raw, 1000)
    /\ info_fmt(Unwrap(res), <<>>) = JoinSp(<<val.kw, IntToString(Min(C15_Raw, 1000))>>)
    /\ sink.offered = IF C15_Raw > 1000
                      THEN <<[e |-> "PermilleTruncated", src_value |-> C15_Raw]>>
                      ELSE <<>>

(***************************************************************************)
(* SpecFmtLine: fmt_line of a Command or a Message, and the pushes into a  *)
(* token buffer one at a time                                              *)
(***************************************************************************)
MaxPushes == 3

InitFmtLine ==
  /\ pc = "start"
  /\ build \in {"release"}
  /\ \/ \E c \in CommandVals : val = [dir |-> "Command", v |-> c]
     \/ \E m \in MessageVals : val = [dir |-> "Message", v |-> m]
     \/ val = [dir |-> "Push"]
  /\ line = <<>>
  /\ res = Idle /\ sink = Idle
  /\ toks = Idle /\ moves = Idle /\ iters = 0

\* Fmt::fmt_line for Command: fmt into UciString::default()
FmtLineCommand ==
  /\ pc = "start" /\ val.dir = "Command"
  /\ line' = Command_fmt_line(val.v)
  /\ pc' = "formatted"
  /\ UNCHANGED <<build, val, res, sink, toks, moves, iters>>

\* Fmt::fmt_line for Message
FmtLineMessage ==
  /\ pc = "start" /\ val.dir = "Message"
  /\ line' = Message_fmt_line(val.v)
  /\ pc' = "formatted"
  /\ UNCHANGED <<build, val, res, sink, toks, moves, iters>>

\* PushTokens::push_token on the buffer; res keeps the buffer before the
\* push and what was pushed
PushToken ==
  /\ pc \in {"start", "pushed"} /\ val.dir = "Push" /\ iters < MaxPushes
  /\ \E t \in Words :
       /\ res' = [before |-> line, token |-> TRUE, pushed |-> <<t>>]
       /\ line' = push_token(line, t)
  /\ iters' = iters + 1
  /\ pc' = "pushed"
  /\ UNCHANGED <<build, val, sink, toks, moves>>

\* PushTokens::push_str on the buffer, the empty string included
PushStr ==
  /\ pc \in {"start", "pushed"} /\ val.dir = "Push" /\ iters < MaxPushes
  /\ \E str \in StrVals :
       /\ res' = [before |-> line, token |-> FALSE, pushed |-> str]
       /\ line' = push_str(line, str)
  /\ iters' = iters + 1
  /\ pc' = "pushed"
  /\ UNCHANGED <<build, val, sink, toks, moves>>

NextFmtLine == FmtLineCommand \/ FmtLineMessage \/ PushToken \/ PushStr

SpecFmtLine == InitFmtLine /\ [][NextFmtLine]_vars

\* no leading space, no trailing space, no two spaces in a row
C16_Canonical(l) ==
  /\ l # <<>> => (l[1] # SP /\ l[Len(l)] # SP)
  /\ \A i \in 1..(Len(l) - 1) : ~(l[i] = SP /\ l[i + 1] = SP)

\* C16: every line fmt_line writes for a Command or a Message has no leading
\* space, no trailing space and no two spaces in a row; each push into the
\* buffer comes after exactly one space, except that the first push adds no
\* space and the push of an empty string adds nothing
C16_Spacing ==
  /\ C16_Canonical(line)
  /\ pc = "pushed" =>
       line = IF res.pushed = <<>> THEN res.before
              ELSE IF res.before = <<>> THEN res.pushed
              ELSE res.before \o <<SP>> \o res.pushed

C16_Witness ==
  /\ pc = "formatted"
  /\ val = [dir |-> "Message", v |-> MsgInfo(<<>>, Some(<<>>))]
  /\ line = <<"info", SP, "string">>

(***************************************************************************)
(* SpecStr: a typed string is built from a token slice or from a string    *)
(***************************************************************************)
StrToks == {"x", "Hash", "Type", "type", "value", "var", "code"}

\* the tokens with whitespace around and between them
RECURSIVE Padded(_)
Padded(ts) ==
  IF ts = <<>> THEN <<SP>> ELSE <<SP, Head(ts), SP>> \o Padded(Tail(ts))

InitStr ==
  /\ pc = "start"
  /\ build \in {"release"}
  /\ \E ty \in DOMAIN BadTokens, ts \in SeqsUpTo(StrToks, MaxStr),
        from \in {"tokens", "str", "padded"} :
       val = [ty |-> ty, ts |-> ts, from |-> from]
  /\ line = IF val.from = "padded" THEN Padded(val.ts) ELSE JoinSp(val.ts)
  /\ res = Idle /\ sink = Idle
  /\ toks = Idle /\ moves = Idle /\ iters = 0

\* <type>::from_tokens of the token slice
StrFromTokens ==
  /\ pc = "start" /\ val.from = "tokens"
  /\ res' = TypedFromTokens(val.ty, val.ts)
  /\ pc' = "built"
  /\ UNCHANGED <<build, val, line, sink, toks, moves, iters>>

\* <type>::from_str of the string
StrFromStr ==
  /\ pc = "start" /\ val.from \in {"str", "padded"}
  /\ res' = TypedFromStr(val.ty, line)
  /\ pc' = "built"
  /\ UNCHANGED <<build, val, line, sink, toks, moves, iters>>

NextStr == StrFromTokens \/ StrFromStr

SpecStr == InitStr /\ [][NextStr]_vars

\* the reserved tokens of the type, as a set
C17_Reserved ==
  CASE val.ty = "OptName" -> {"type", "value"}
    [] val.ty = "OptComboVar" -> {"var"}
    [] val.ty = "RegisterName" -> {"code"}
    [] val.ty = "UciString" -> {}

\* C17: building an OptName from a token slice or from a string fails with
\* BadToken naming the reserved token if and only if a token of the input is
\* type or value; likewise OptComboVar with var and RegisterName with code;
\* building a UciString never fails; on success the body is the tokens of the
\* input joined by single spaces
C17_ReservedRejected ==
  pc = "built" =>
    IF \E i \in 1..Len(val.ts) : val.ts[i] \in C17_Reserved
    THEN /\ ~res.ok
         /\ res.err.e = "BadToken"
         /\ res.err.tok \in C17_Reserved
         /\ \E i \in 1..Len(val.ts) : val.ts[i] = res.err.tok
    ELSE /\ res.ok
         /\ res.v = JoinSp(val.ts)

C17_Witness ==
  /\ pc = "built"
  /\ val = [ty |-> "OptName", ts |-> <<"x", "value">>, from |-> "padded"]
  /\ res = [ok |-> FALSE, err |-> [e |-> "BadToken", tok |-> "value"]]

(***************************************************************************)
(* SpecStrCmp: two typed strings of one type are compared and hashed       *)
(* (src/src/uci/str.rs: impl_case_insensitive!, and the derives of         *)
(* RegisterName and UciString)                                             *)
(***************************************************************************)
MaxChars == 2

\* the characters of the contents, in the order of their code points;
\* "Eacute" is U+00C9 and "eacute" is U+00E9, which are not ASCII
Chars == <<" ", "A", "a", "b", "Eacute", "eacute">>
CharCode ==
  [c \in {Chars[i] : i \in 1..Len(Chars)} |-> CHOOSE i \in 1..Len(Chars) : Chars[i] = c]

\* char::to_ascii_lowercase
char_to_ascii_lowercase(c) == IF c = "A" THEN "a" ELSE c

\* the UTF-8 bytes of a character, and their order
Utf8(c) ==
  CASE c = "Eacute" -> <<"C3", "89">>
    [] c = "eacute" -> <<"C3", "A9">>
    [] OTHER -> <<c>>
Bytes == <<" ", "A", "a", "b", "89", "A9", "C3", "FF">>
ByteCode ==
  [b \in {Bytes[i] : i \in 1..Len(Bytes)} |-> CHOOSE i \in 1..Len(Bytes) : Bytes[i] = b]

\* u8::to_ascii_lowercase
u8_to_ascii_lowercase(b) == IF b = "A" THEN "a" ELSE b

\* str::bytes
RECURSIVE str_bytes(_)
str_bytes(s) == IF s = <<>> THEN <<>> ELSE Utf8(Head(s)) \o str_bytes(Tail(s))

iter_low_exact(s) == s

\* iter_low: self.0.chars().map(|c| c.to_ascii_lowercase())
iter_low(s) == [i \in 1..Len(s) |-> char_to_ascii_lowercase(s[i])]

\* Iterator::cmp: lexicographic, code is the order of the items
RECURSIVE iter_cmp(_, _, _)
iter_cmp(x, y, code) ==
  IF x = <<>> THEN (IF y = <<>> THEN "Equal" ELSE "Less")
  ELSE IF y = <<>> THEN "Greater"
  ELSE IF code[Head(x)] < code[Head(y)] THEN "Less"
  ELSE IF code[Head(x)] > code[Head(y)] THEN "Greater"
  ELSE iter_cmp(Tail(x), Tail(y), code)

\* PartialEq, Ord and Hash of impl_case_insensitive!; the hash is the
\* sequence of the bytes written to the hasher
ci_eq(a, b) == iter_low(a) = iter_low(b)
ci_cmp(a, b) == iter_cmp(iter_low(a), iter_low(b), CharCode)
ci_hash(a) == [i \in 1..Len(str_bytes(a)) |-> u8_to_ascii_lowercase(str_bytes(a)[i])]

\* the derived PartialEq, Ord and Hash of a struct that wraps a String
cs_eq(a, b) == a = b
cs_cmp(a, b) == iter_cmp(str_bytes(a), str_bytes(b), ByteCode)
cs_hash(a) == str_bytes(a) \o <<"FF">>

CaseInsensitive == {"OptName", "OptComboVar"}
CaseSensitive == {"RegisterName", "UciString"}

\* the contents a typed string can hold: tokens joined by single spaces
Contents ==
  {s \in SeqsUpTo(DOMAIN CharCode, MaxChars) :
     /\ s # <<>> => (s[1] # " " /\ s[Len(s)] # " ")
     /\ \A i \in 1..(Len(s) - 1) : ~(s[i] = " " /\ s[i + 1] = " ")}

InitStrCmp ==
  /\ pc = "start"
  /\ build \in {"release"}
  /\ \E ty \in CaseInsensitive \cup CaseSensitive, a \in Contents, b \in Contents :
       val = [ty |-> ty, a |-> a, b |-> b]
  /\ line = Idle /\ res = Idle /\ sink = Idle
  /\ toks = Idle /\ moves = Idle /\ iters = 0

\* a == b, a.cmp(&b), and the hashes of a and b, for OptName and OptComboVar
CompareInsensitive ==
  /\ pc = "start" /\ val.ty \in CaseInsensitive
  /\ res' = [eq |-> ci_eq(val.a, val.b), cmp |-> ci_cmp(val.a, val.b),
             hash_a |-> ci_hash(val.a), hash_b |-> ci_hash(val.b)]
  /\ pc' = "compared"
  /\ UNCHANGED <<build, val, line, sink, toks, moves, iters>>

\* the same for RegisterName and UciString
CompareSensitive ==
  /\ pc = "start" /\ val.ty \in CaseSensitive
  /\ res' = [eq |-> cs_eq(val.a, val.b), cmp |-> cs_cmp(val.a, val.b),
             hash_a |-> cs_hash(val.a), hash_b |-> cs_hash(val.b)]
  /\ pc' = "compared"
  /\ UNCHANGED <<build, val, line, sink, toks, moves, iters>>

NextStrCmp == CompareInsensitive \/ CompareSensitive

SpecStrCmp == InitStrCmp /\ [][NextStrCmp]_vars

\* the content with its ASCII upper-case letters made lower-case
C18_Lowered(s) == [i \in 1..Len(s) |-> IF s[i] = "A" THEN "a" ELSE s[i]]

\* C18: for OptName and OptComboVar, a == b if and only if the contents are
\* equal after ASCII lowercasing, a == b implies hash(a) == hash(b), and
\* a.cmp(b) is Equal if and only if a == b; RegisterName and UciString
\* compare by their exact content
C18_CaseInsensitive ==
  pc = "compared" =>
    IF val.ty \in CaseInsensitive
    THEN /\ res.eq <=> C18_Lowered(val.a) = C18_Lowered(val.b)
         /\ res.eq => res.hash_a = res.hash_b
         /\ res.cmp = "Equal" <=> res.eq
    ELSE /\ res.eq <=> val.a = val.b
         /\ res.cmp = "Equal" <=> val.a = val.b
         /\ res.eq => res.hash_a = res.hash_b

C18_Witness ==
  /\ pc = "compared" /\ val.ty = "OptName"
  /\ val.a = <<"A", "b">> /\ val.b = <<"a", "b">>
  /\ res.eq /\ res.cmp = "Equal" /\ res.hash_a = res.hash_b

(***************************************************************************)
(* SpecSink: warnings are given to a sink, directly, through adapters and  *)
(* from nested calls (src/src/warn.rs)                                     *)
(***************************************************************************)
MaxWarns == 3
MaxAdapt == 2
MaxRec == 3

ErrFirst(v) == [e |-> "ErrFirst", value |-> v]

\* res is the log of the warn calls made by the callers: the error given and
\* the adapters it was given through; toks is the stack of the calls of
\* recursive(n, warn), `at` the place of each call in its body
InitSink ==
  /\ pc = "run"
  /\ build \in {"release"}
  /\ \/ \E k \in SinkKinds : val = [kind |-> k, mode |-> "free", n |-> 0]
     \/ \E k \in SinkKinds, n \in 0..MaxRec : val = [kind |-> k, mode |-> "recursive", n |-> n]
  /\ sink = NewSink(val.kind)
  /\ res = <<>>
  /\ toks = IF val.mode = "recursive" THEN <<[n |-> val.n, at |-> 0]>> ELSE <<>>
  /\ line = Idle /\ moves = Idle /\ iters = 0

\* warn.warn(error), on the sink or on the adapter borrowed last; the value
\* of the error is the number of the call
SinkWarn ==
  /\ pc = "run" /\ val.mode = "free" /\ iters < MaxWarns
  /\ sink' = Warn(sink, ErrFirst(iters + 1))
  /\ res' = Append(res, [error |-> ErrFirst(iters + 1), maps |-> sink.maps])
  /\ iters' = iters + 1
  /\ UNCHANGED <<pc, build, val, line, toks, moves>>

\* a call is given &mut warn.adapt(): the sink of ErrSecond, or of an error
\* with a From for the one above, becomes a sink of the error it wraps
SinkAdapt ==
  /\ pc = "run" /\ val.mode = "free" /\ Len(sink.maps) < MaxAdapt
  /\ Len(sink.maps) % 2 = 0
  /\ sink' = adapt(sink, "ErrSecond")
  /\ UNCHANGED <<pc, build, val, line, res, toks, moves, iters>>

\* a call is given &mut warn.adapt_map(|error| BadComboVar { pos, error })
SinkAdaptMap ==
  /\ pc = "run" /\ val.mode = "free" /\ Len(sink.maps) < MaxAdapt
  /\ Len(sink.maps) % 2 = 1
  /\ sink' = adapt_map(sink, "BadComboVar", iters)
  /\ UNCHANGED <<pc, build, val, line, res, toks, moves, iters>>

\* the call that was given the adapter returns
SinkReturn ==
  /\ pc = "run" /\ val.mode = "free" /\ sink.maps # <<>>
  /\ sink' = unadapt(sink)
  /\ UNCHANGED <<pc, build, val, line, res, toks, moves, iters>>

\* tests::recursive: recursive(n - 1, warn), before and after the warning
RecursiveCall ==
  /\ pc = "run" /\ val.mode = "recursive" /\ toks # <<>>
  /\ LET top == toks[Len(toks)]
     IN /\ top.n > 0 /\ top.at \in {0, 2}
        /\ toks' = Append([toks EXCEPT ![Len(toks)].at = top.at + 1],
                          [n |-> top.n - 1, at |-> 0])
  /\ UNCHANGED <<pc, build, val, line, res, sink, moves, iters>>

\* tests::recursive: warn.warn(ErrFirst { value: n })
RecursiveWarn ==
  /\ pc = "run" /\ val.mode = "recursive" /\ toks # <<>>
  /\ LET top == toks[Len(toks)]
     IN /\ top.n > 0 /\ top.at = 1
        /\ sink' = Warn(sink, ErrFirst(top.n))
        /\ res' = Append(res, [error |-> ErrFirst(top.n), maps |-> sink.maps])
        /\ toks' = [toks EXCEPT ![Len(toks)].at = 2]
  /\ iters' = iters + 1
  /\ UNCHANGED <<pc, build, val, line, moves>>

\* tests::recursive: return, at n == 0 or at the end of the body
RecursiveReturn ==
  /\ pc = "run" /\ val.mode = "recursive" /\ toks # <<>>
  /\ LET top == toks[Len(toks)]
     IN /\ top.n = 0 \/ top.at = 3
        /\ toks' = SubSeq(toks, 1, Len(toks) - 1)
  /\ pc' = IF Len(toks) = 1 THEN "done" ELSE "run"
  /\ UNCHANGED <<build, val, line, res, sink, moves, iters>>

NextSink ==
  \/ SinkWarn \/ SinkAdapt \/ SinkAdaptMap \/ SinkReturn
  \/ RecursiveCall \/ RecursiveWarn \/ RecursiveReturn

SpecSink == InitSink /\ [][NextSink]_vars

\* the error as it is to reach the sink: converted by the adapters it was
\* given through, the innermost first
RECURSIVE C20_Converted(_, _)
C20_Converted(maps, error) ==
  IF maps = <<>> THEN error
  ELSE IF Head(maps).pos >= 0
  THEN [e |-> Head(maps).tag, pos |-> Head(maps).pos,
        error |-> C20_Converted(Tail(maps), error)]
  ELSE [e |-> Head(maps).tag, error |-> C20_Converted(Tail(maps), error)]

\* the warn calls w1..wn made on the sink, in the order they were made
C19_Calls == [i \in 1..Len(res) |-> C20_Converted(res[i].maps, res[i].error)]

\* the warnings of recursive(n, warn), in order
RECURSIVE C19_Recursive(_)
C19_Recursive(n) ==
  IF n = 0 THEN <<>>
  ELSE C19_Recursive(n - 1) \o <<ErrFirst(n)>> \o C19_Recursive(n - 1)

\* C19: after the warn calls w1..wn on a fresh sink, All holds w1..wn in that
\* order, First holds w1 and later calls leave it unchanged, Last holds wn,
\* Ignore holds nothing; with no call All is empty and First and Last are
\* None; the same when the sink is passed down through nested calls
C19_EmissionOrder ==
  LET w == C19_Calls
      n == Len(w)
  IN /\ val.kind = "All" => sink.store = w
     /\ val.kind = "First" => sink.store = IF n = 0 THEN None ELSE Some(w[1])
     /\ val.kind = "Last" => sink.store = IF n = 0 THEN None ELSE Some(w[n])
     /\ val.kind = "Ignore" => sink.store = <<>>
     /\ (val.mode = "recursive" /\ pc = "done") => w = C19_Recursive(val.n)

C19_Witness ==
  /\ pc = "done" /\ val.mode = "recursive" /\ val.n = 3 /\ val.kind = "All"
  /\ sink.store = <<ErrFirst(1), ErrFirst(2), ErrFirst(1), ErrFirst(3),
                    ErrFirst(1), ErrFirst(2), ErrFirst(1)>>

\* C20: each warning given to an adapter made by adapt or adapt_map reaches
\* the underlying sink exactly once, converted by From or by the mapper, and
\* the warnings given through adapters and those given to the sink directly
\* reach it in the order they were given
C20_AdaptersTransparent ==
  /\ Len(sink.offered) = Len(res)
  /\ \A i \in 1..Len(res) :
       sink.offered[i] = C20_Converted(res[i].maps, res[i].error)

C20_Witness ==
  /\ val.kind = "All" /\ val.mode = "free"
  /\ res = <<[error |-> ErrFirst(1), maps |-> <<[tag |-> "ErrSecond", pos |-> -1]>>],
             [error |-> ErrFirst(2), maps |-> <<>>]>>
  /\ sink.maps = <<>>
  /\ sink.store = <<[e |-> "ErrSecond", error |-> ErrFirst(1)], ErrFirst(2)>>

(***************************************************************************)
(* SpecRecover: lines with something missing, wrong or left over are       *)
(* parsed with each of the sinks                                           *)
(***************************************************************************)
MaxPos == 4
MaxBest == 3
MaxTrail == 2
MaxItems == 4
MaxKw == 2

PosToks == {"startpos", "fen", "moves", "e2e4", "x"}
BestToks == {"e2e4", "0000", "z9z9", "ponder", "x"}
TrailToks == {"x", "default"}
ItemToks == {"depth", "1", "x", "string", "pv"}
KwToks == CommandKw \cup MessageKw \cup {"x"}
ArgToks == {"x", "name", "type", "value", "code", "later", "ok", "button"}

\* the tokens of the FEN of a board
FenToks(b) == tokenize(RawBoard_to_string(b))

\* the lines of commands and the bodies of options that parse with nothing
\* left over, when no token follows
CompleteCommands ==
  {<<"uci">>, <<"debug", "on">>, <<"debug", "off">>, <<"debug", "x">>, <<"isready">>,
   <<"register", "later">>, <<"ucinewgame">>, <<"stop">>, <<"ponderhit">>, <<"quit">>,
   <<"x", "stop">>}
CompleteBodies ==
  {<<"button">>, <<"check", "default", "true">>, <<"check", "default", "false">>,
   <<"check", "default", "x">>,
   <<"spin", "default", "0", "min", "-1", "max", "1">>}

InitRecover ==
  /\ pc = "start"
  /\ build \in {"release"}
  /\ \/ \E ts \in SeqsUpTo(PosToks, MaxPos) :
          val = [dir |-> "Command", ts |-> <<"position">> \o ts]
     \/ \E b \in BoardVals, ts \in SeqsUpTo({"moves", "e2e4", "x"}, MaxPos - 1) :
          val = [dir |-> "Command", ts |-> <<"position", "fen">> \o FenToks(b) \o ts]
     \/ \E ts \in SeqsUpTo(BestToks, MaxBest) :
          val = [dir |-> "Message", ts |-> <<"bestmove">> \o ts]
     \/ \E c \in CompleteCommands, ts \in SeqsUpTo(TrailToks, MaxTrail) :
          val = [dir |-> "Command", ts |-> c \o ts]
     \/ \E c \in CompleteBodies, ts \in SeqsUpTo(TrailToks, MaxTrail) :
          val = [dir |-> "OptBody", ts |-> c \o ts]
     \/ \E ts \in SeqsUpTo(ItemToks, MaxItems) :
          val = [dir |-> "Message", ts |-> <<"info">> \o ts]
     \/ \E d \in {"Command", "Message"}, k \in KwToks, ts \in SeqsUpTo(ArgToks, MaxKw) :
          val = [dir |-> d, ts |-> <<k>> \o ts]
     \/ \E d \in {"Command", "Message"} : val = [dir |-> d, ts |-> <<>>]
  /\ line = JoinSp(val.ts)
  /\ res = Idle /\ sink = Idle
  /\ toks = Idle /\ moves = Idle /\ iters = 0

\* optbody::parse of the tokens of the body, once with each sink
ParseOptBodyTokens ==
  /\ pc = "start" /\ val.dir = "OptBody"
  /\ res' = [k \in SinkKinds |-> LineResult(optbody_parse(tokenize(line), NewSink(k)))]
  /\ pc' = "parsed"
  /\ UNCHANGED <<build, val, line, sink, toks, moves, iters>>

NextRecover == ParseCommandLine \/ ParseMessageLine \/ ParseOptBodyTokens

SpecRecover == InitRecover /\ [][NextRecover]_vars

\* the line is a position command that was parsed
C21_IsPosition ==
  /\ pc = "parsed" /\ val.dir = "Command"
  /\ val.ts # <<>> /\ Head(val.ts) = "position"

\* the tokens after position, the index of the first moves among them (0
\* when there is none), the tokens before it and the tokens after it
C21_Body == Tail(val.ts)
C21_MovesAt ==
  IF \E i \in 1..Len(C21_Body) : C21_Body[i] = "moves"
  THEN CHOOSE i \in 1..Len(C21_Body) :
         C21_Body[i] = "moves" /\ \A j \in 1..(i - 1) : C21_Body[j] # "moves"
  ELSE 0
C21_Before ==
  IF C21_MovesAt = 0 THEN C21_Body ELSE SubSeq(C21_Body, 1, C21_MovesAt - 1)
C21_After ==
  IF C21_MovesAt = 0 THEN <<>> ELSE SubSeq(C21_Body, C21_MovesAt + 1, Len(C21_Body))

\* the three cases of the recovery
C21_NoMoves == C21_MovesAt = 0
C21_NoBoard == C21_Before = <<>>
C21_Extra == Len(C21_Before) > 1 /\ Head(C21_Before) = "startpos"

\* the warning w was given
C21_Warned(w) == \E i \in 1..Len(res["All"].s.store) : res["All"].s.store[i] = w

\* the result is a position
C21_IsSomePosition == IsSome(res["All"].v) /\ Unwrap(res["All"].v).c = "Position"

\* C21 as stated: without moves the parser warns PositionNoMoves and the
\* move list is empty; without a token before moves it warns NoPosition and
\* uses the initial board; with tokens after startpos it warns ExtraToken;
\* in all three cases the result is Some(Position)
C21_PositionRecovery ==
  C21_IsPosition =>
    /\ C21_NoMoves =>
         /\ C21_Warned([e |-> "PositionNoMoves"])
         /\ C21_IsSomePosition
         /\ Unwrap(res["All"].v).moves = <<>>
    /\ C21_NoBoard =>
         /\ C21_Warned([e |-> "NoPosition"])
         /\ C21_IsSomePosition
         /\ Unwrap(res["All"].v).startpos = InitialBoard
    /\ C21_Extra =>
         /\ C21_Warned(ExtraToken(C21_Before[2]))
         /\ C21_IsSomePosition

\* the board part and the moves of the line are valid: the first token is
\* absent, startpos, or fen with a valid FEN, and each token after moves is
\* a move
C21_IsMove(tok) == tok = "0000" \/ tok \in DOMAIN MoveTable
C21_BoardValid ==
  \/ C21_Before = <<>>
  \/ Head(C21_Before) = "startpos"
  \/ /\ Head(C21_Before) = "fen"
     /\ \E b \in BoardVals : Tail(C21_Before) = FenToks(b)
C21_Valid ==
  /\ C21_BoardValid
  /\ \A i \in 1..Len(C21_After) : C21_IsMove(C21_After[i])

\* C21, amended: the three warnings are given as stated, and none of the
\* three cases drops the command: the result is Some(Position) exactly when
\* the board part and the moves are valid, with an empty move list when
\* moves is absent and the initial board when no token precedes moves
C21_RecoveryWhenValid ==
  C21_IsPosition =>
    /\ C21_NoMoves => C21_Warned([e |-> "PositionNoMoves"])
    /\ C21_NoBoard => C21_Warned([e |-> "NoPosition"])
    /\ C21_Extra => C21_Warned(ExtraToken(C21_Before[2]))
    /\ C21_IsSomePosition <=> C21_Valid
    /\ C21_Valid =>
         /\ C21_NoMoves => Unwrap(res["All"].v).moves = <<>>
         /\ (C21_NoBoard \/ C21_Extra) => Unwrap(res["All"].v).startpos = InitialBoard

C21_Witness ==
  /\ C21_IsPosition
  /\ val.ts = <<"position", "startpos", "x">>
  /\ res["All"].v = Some(CmdPosition(InitialBoard, <<>>))
  /\ res["All"].s.store = <<[e |-> "PositionNoMoves"], ExtraToken("x")>>

\* the index in the move list of the first token that is no move, 0 when
\* each token is a move
C28_FirstBad ==
  IF \A i \in 1..Len(C21_After) : C21_IsMove(C21_After[i]) THEN 0
  ELSE CHOOSE i \in 1..Len(C21_After) :
         ~C21_IsMove(C21_After[i]) /\ \A j \in 1..(i - 1) : C21_IsMove(C21_After[j])

\* the places of the InvalidMove warnings among the warnings given
C28_InvalidMoves ==
  {i \in 1..Len(res["All"].s.store) : res["All"].s.store[i].e = "InvalidMove"}

\* exactly one InvalidMove warning was given, for the first token that is no
\* move
C28_OnceForFirst ==
  /\ Cardinality(C28_InvalidMoves) = 1
  /\ \A i \in C28_InvalidMoves : res["All"].s.store[i].pos = C28_FirstBad - 1

\* C28 as stated: if a token after moves is no move, exactly one InvalidMove
\* warning is given, its pos is the 0-based index of the first such token in
\* the move list, and the command parses to None
C28_InvalidMoveOnce ==
  (C21_IsPosition /\ C28_FirstBad > 0) =>
    /\ res["All"].v = None
    /\ C28_OnceForFirst

\* C28, amended: if a token after moves is no move the command parses to
\* None; when the board part is valid exactly one InvalidMove warning is
\* given, for the first such token; when the board part is not valid the
\* command is dropped before the moves are read and no InvalidMove warning is
\* given
C28_InvalidMoveAfterBoard ==
  (C21_IsPosition /\ C28_FirstBad > 0) =>
    /\ res["All"].v = None
    /\ C21_BoardValid => C28_OnceForFirst
    /\ ~C21_BoardValid => C28_InvalidMoves = {}

C28_Witness ==
  /\ C21_IsPosition
  /\ val.ts = <<"position", "moves", "e2e4", "x", "x">>
  /\ res["All"].v = None
  /\ res["All"].s.store =
       <<[e |-> "NoPosition"],
         [e |-> "InvalidMove", pos |-> 1, error |-> [e |-> "RawParseError", tok |-> "x"]]>>

\* the line is a bestmove message that was parsed, with a token after
\* bestmove
C22_IsBestMove ==
  /\ pc = "parsed" /\ val.dir = "Message"
  /\ Len(val.ts) >= 2 /\ Head(val.ts) = "bestmove"

\* the tokens after bestmove
C22_Body == Tail(val.ts)

\* the error of UciMove::from_str for the token
C22_ParseError(tok) == [e |-> "RawParseError", tok |-> tok]

\* the move the token after bestmove stands for, the null move when it is no
\* move
C22_BestMove ==
  CASE C22_Body[1] = "0000" -> NullMove
    [] C22_Body[1] \in DOMAIN MoveTable -> MoveTable[C22_Body[1]]
    [] OTHER -> NullMove

\* C22: a token after bestmove that is no move warns InvalidBestmove and the
\* result is Some(BestMove) with the null move; ponder followed by a token
\* that is no move warns InvalidPonder and ponder is None; a token after the
\* best move other than ponder warns and ponder is None; in each case the
\* message is kept and the best move is the one the first token gives
C22_BestMoveRecovery ==
  C22_IsBestMove =>
    LET r == res["All"]
    IN /\ IsSome(r.v)
       /\ Unwrap(r.v).m = "BestMove"
       /\ Unwrap(r.v).bestmove = C22_BestMove
       /\ ~C21_IsMove(C22_Body[1]) =>
            /\ C21_Warned([e |-> "InvalidBestmove", error |-> C22_ParseError(C22_Body[1])])
            /\ Unwrap(r.v).bestmove = NullMove
       /\ (Len(C22_Body) >= 3 /\ C22_Body[2] = "ponder" /\ ~C21_IsMove(C22_Body[3])) =>
            /\ C21_Warned([e |-> "InvalidPonder", error |-> C22_ParseError(C22_Body[3])])
            /\ Unwrap(r.v).ponder = None
       /\ (Len(C22_Body) >= 2 /\ C22_Body[2] # "ponder") =>
            /\ C21_Warned(UnexpectedToken(C22_Body[2]))
            /\ Unwrap(r.v).ponder = None

C22_Witness ==
  /\ C22_IsBestMove
  /\ val.ts = <<"bestmove", "z9z9", "ponder", "x">>
  /\ res["All"].v = Some(MsgBestMove(NullMove, None))
  /\ res["All"].s.store =
       <<[e |-> "InvalidBestmove", error |-> C22_ParseError("z9z9")],
         [e |-> "InvalidPonder", error |-> C22_ParseError("x")]>>

\* the line is a command or the body of an option that was parsed
C23_IsParsed == pc = "parsed" /\ val.dir \in {"Command", "OptBody"}

\* the tokens the parser left unconsumed, before its residual check
C23_Rest ==
  IF val.dir = "Command"
  THEN command_loop(TopState(val.ts, NewSink("All"), FALSE, None)).toks
  ELSE optbody_parse_inner(val.ts, NewSink("All")).toks

\* the result for the line without the tokens left unconsumed
C23_Without ==
  IF val.dir = "Command"
  THEN Command_parse_line(JoinSp(SubSeq(val.ts, 1, Len(val.ts) - Len(C23_Rest))),
                          NewSink("All"))
  ELSE LineResult(optbody_parse(SubSeq(val.ts, 1, Len(val.ts) - Len(C23_Rest)),
                                NewSink("All")))

\* C23: when a command line or an option body has been parsed and tokens
\* remain unconsumed, the parser gives an ExtraToken warning that names the
\* first remaining token, and returns the result it returns for the line
\* without the remaining tokens
C23_ResidualKeepsResult ==
  (C23_IsParsed /\ C23_Rest # <<>>) =>
    LET r == res["All"]
    IN /\ r.s.store # <<>>
       /\ r.s.store[Len(r.s.store)] = ExtraToken(Head(C23_Rest))
       /\ r.v = C23_Without.v
       /\ r.s.store = Append(C23_Without.s.store, ExtraToken(Head(C23_Rest)))

C23_Witness ==
  /\ C23_IsParsed /\ val.dir = "OptBody"
  /\ val.ts = <<"check", "default", "true", "x", "default">>
  /\ C23_Rest = <<"x", "default">>
  /\ res["All"].v = Some(OptCheck(TRUE))
  /\ res["All"].s.store = <<ExtraToken("x")>>

\* the line is an info message that was parsed
C26_IsInfo ==
  /\ pc = "parsed" /\ val.dir = "Message"
  /\ val.ts # <<>> /\ Head(val.ts) = "info"

\* the warnings of the item of index k, as BadInfo warnings
C26_BadInfo(errors, k) ==
  [i \in 1..Len(errors) |-> [e |-> "BadInfo", pos |-> k, error |-> errors[i]]]

\* the items of an info line from the item of index k on: the items that
\* parsed, in source order, the string, and the warnings with pos the index
\* of the item, the failed items counted
RECURSIVE C26_Items(_, _)
C26_Items(ts, k) ==
  IF ts = <<>> THEN [info |-> <<>>, string |-> None, warns |-> <<>>]
  ELSE IF Head(ts) = "string"
  THEN [info |-> <<>>, string |-> Some(JoinSp(Tail(ts))), warns |-> <<>>]
  ELSE LET item == info_parse(ts, NewSink("All"))
           rest == C26_Items(item.toks, k + 1)
       IN [info |-> (IF IsSome(item.v) THEN <<Unwrap(item.v)>> ELSE <<>>) \o rest.info,
           string |-> rest.string,
           warns |-> C26_BadInfo(item.s.store, k) \o rest.warns]

\* C26: in an info line each item that fails to parse gives BadInfo{pos,
\* error} with pos the 0-based index of the item in the line, the failed
\* items counted; the failed item is not added, the items that parsed are
\* kept in source order, the result is Some(Info), and string ends the items
\* and takes the rest of the line
C26_BadInfoIndex ==
  C26_IsInfo =>
    LET want == C26_Items(Tail(val.ts), 0)
    IN /\ res["All"].v = Some(MsgInfo(want.info, want.string))
       /\ res["All"].s.store = want.warns

\* C29: whenever Command::parse_line or Message::parse_line returns None for
\* a line with at least one token, at least one warning was given to the
\* sink, whichever sink it is; None without a warning happens only for a
\* line without tokens
C29_NoSilentFailure ==
  (pc = "parsed" /\ val.dir \in {"Command", "Message"}) =>
    \A k \in SinkKinds :
      (res[k].v = None /\ res[k].s.offered = <<>>) <=> val.ts = <<>>

C29_Witness ==
  /\ pc = "parsed" /\ val.dir = "Message"
  /\ val.ts = <<"option", "name", "x">>
  /\ res["All"].v = None
  /\ res["All"].s.store = <<[e |-> "OptionNoType"], [e |-> "OptionBadBody", error |-> EolError]>>
  /\ res["Ignore"].s.offered = res["All"].s.store

(***************************************************************************)
(* SpecMoveVec: the move vector is parsed from a run of tokens, one        *)
(* iteration of the loop per step                                          *)
(***************************************************************************)
RunToks == {"e2e4", "z9z9", "x"}

InitMoveVec ==
  /\ pc = "loop"
  /\ build \in {"release"}
  /\ \E k \in {"movevec", "parse_move_vec"}, u \in BOOLEAN,
        ts \in SeqsUpTo(RunToks, MaxIters - 1) :
       val = [kind |-> k, until_first_error |-> u, ts |-> ts]
  /\ toks = val.ts
  /\ res = LoopInit(val.kind, toks)
  /\ line = Idle /\ sink = Idle /\ moves = Idle
  /\ iters = 0

NextMoveVec == MoveVecIter \/ ParseMoveVecIter

SpecMoveVec == InitMoveVec /\ [][NextMoveVec]_vars

\* the number of tokens consumed so far
C24_Consumed == Len(val.ts) - Len(res.toks)

\* the token parses as a move
C24_Parses(tok) == tok = "0000" \/ tok \in DOMAIN MoveTable

\* the token of index i is where the parser is to stop: it does not look
\* like a move, or, in until-first-error mode, the token before it looked
\* like a move and failed to parse
C24_StopsAt(i) ==
  \/ ~looks_like_move(val.ts[i])
  \/ val.until_first_error /\ i > 1 /\ ~C24_Parses(val.ts[i - 1])

\* the number of tokens the parser is to consume: those before the first
\* token where it is to stop, or, in until-first-error mode, the whole run
\* when its last token is the first that failed to parse
C24_Stop ==
  IF \E i \in 1..Len(val.ts) : C24_StopsAt(i)
  THEN (CHOOSE i \in 1..Len(val.ts) :
          C24_StopsAt(i) /\ \A j \in 1..(i - 1) : ~C24_StopsAt(j)) - 1
  ELSE Len(val.ts)

\* C24: the move-vector parser never consumes a token that does not look
\* like a move; on return the slice left starts at the first token that
\* fails the shape test, or, in until-first-error mode, just after the first
\* move-shaped token that failed to parse; each token before that point was
\* consumed and each token from that point on is left for the caller
C24_StopsAtNonMove ==
  /\ res.toks = SubSeq(val.ts, C24_Consumed + 1, Len(val.ts))
  /\ \A i \in 1..C24_Consumed : looks_like_move(val.ts[i])
  /\ pc = "done" => C24_Consumed = C24_Stop

C24_Witness ==
  /\ pc = "done" /\ val.kind = "movevec" /\ val.until_first_error
  /\ val.ts = <<"e2e4", "z9z9", "e2e4">>
  /\ res.toks = <<"e2e4">>
  /\ res.moves = <<MoveTable["e2e4"]>>

\* the warnings for the tokens of index i to n of the consumed run, with pos
\* the 0-based position of the token in the run
RECURSIVE C25_Warnings(_, _)
C25_Warnings(i, n) ==
  IF i > n THEN <<>>
  ELSE (IF C24_Parses(val.ts[i]) THEN <<>>
        ELSE <<[e |-> "MoveVecError", pos |-> i - 1,
                error |-> [e |-> "RawParseError", tok |-> val.ts[i]]]>>)
         \o C25_Warnings(i + 1, n)

\* C25: every warning of the move-vector parser carries pos equal to the
\* 0-based position, in the consumed run, of the token that failed to parse,
\* in both modes, also for a failure after an earlier failed token of the
\* run
C25_WarningPos == res.s.store = C25_Warnings(1, C24_Consumed)

(***************************************************************************)
(* SpecMate: score mate <n> is parsed, in a build with overflow checks and *)
(* in a build without them                                                 *)
(***************************************************************************)
InitMate ==
  /\ pc = "start"
  /\ build \in Builds
  /\ \E t \in NumToks \cup {"x"}, b \in {<<>>, <<"lowerbound">>, <<"upperbound">>} :
       val = [tok |-> t, ts |-> <<"mate", t>> \o b]
  /\ line = JoinSp(val.ts)
  /\ res = Idle /\ sink = Idle
  /\ toks = Idle /\ moves = Idle /\ iters = 0

\* score::parse of the tokens after score
ScoreParse ==
  /\ pc = "start"
  /\ res' = LineResult(score_parse(tokenize(line), NewSink("All")))
  /\ pc' = "parsed"
  /\ UNCHANGED <<build, val, line, sink, toks, moves, iters>>

NextMate == ScoreParse

SpecMate == InitMate /\ [][NextMate]_vars

\* the number after mate is representable as i64
C27_IsI64 ==
  /\ pc = "parsed" /\ val.tok \in NumToks
  /\ NumVal[val.tok] >= I64Min /\ NumVal[val.tok] <= I64Max

\* the absolute value, as a mathematical integer
C27_Abs == IF NumVal[val.tok] < 0 THEN -NumVal[val.tok] ELSE NumVal[val.tok]

\* C27: for score mate n with n representable as i64, i64::MIN and i64::MAX
\* included: if |n| fits u32 the result is Mate{moves: |n|, win: n > 0};
\* otherwise the parser warns MateTooLarge(n) and yields no score; in no case
\* does the computation of |n| overflow or abort the parser
C27_MateAbs ==
  C27_IsI64 =>
    /\ ~res.panicked
    /\ C27_Abs <= U32Max =>
         /\ IsSome(res.v)
         /\ Unwrap(res.v).score = RelMate(C27_Abs, NumVal[val.tok] > 0)
         /\ res.s.store = <<>>
    /\ C27_Abs > U32Max =>
         /\ res.v = None
         /\ res.s.store = <<[e |-> "MateTooLarge", n |-> NumVal[val.tok]]>>

(***************************************************************************)
(* SpecCanon: a line is parsed and the value written back, twice over, as  *)
(* the uciecho example does with its own output                            *)
(***************************************************************************)
MaxGo == 3
MaxRounds == 2

GoToks == {"go", "infinite", "wtime", "btime", "1", "searchmoves", "e2e4", "mate", "depth"}
OptionBodies ==
  CompleteBodies \cup
    {<<"string", "default">>, <<"string", "default", "x">>,
     <<"combo", "default", "x">>, <<"combo", "default", "x", "var", "x", "var", "Hash">>}

InitCanon ==
  /\ pc = "line"
  /\ build \in {"release"}
  /\ \/ \E d \in {"Command", "Message"}, k \in KwToks, ts \in SeqsUpTo(ArgToks, MaxKw) :
          val = [dir |-> d, ts |-> <<k>> \o ts]
     \/ \E b \in OptionBodies, ts \in SeqsUpTo(TrailToks, MaxTrail - 1) :
          val = [dir |-> "Message", ts |-> <<"option", "name", "Hash", "type">> \o b \o ts]
     \/ \E ts \in SeqsUpTo(PosToks, MaxPos - 1) :
          val = [dir |-> "Command", ts |-> <<"position">> \o ts]
     \/ \E b \in BoardVals, ts \in SeqsUpTo({"moves", "e2e4", "0000"}, MaxPos - 2) :
          val = [dir |-> "Command", ts |-> <<"position", "fen">> \o FenToks(b) \o ts]
     \/ \E ts \in SeqsUpTo(GoToks, MaxGo) :
          val = [dir |-> "Command", ts |-> <<"go">> \o ts]
     \/ \E ts \in SeqsUpTo(BestToks, MaxBest) :
          val = [dir |-> "Message", ts |-> <<"bestmove">> \o ts]
     \/ \E ts \in SeqsUpTo(ItemToks, MaxItems - 1) :
          val = [dir |-> "Message", ts |-> <<"info">> \o ts]
  /\ line = JoinSp(val.ts)
  /\ res = Idle /\ sink = Idle
  /\ toks = <<>> /\ moves = Idle /\ iters = 0

\* P::parse_line of the line, for P = Command
CanonParseCommand ==
  /\ pc = "line" /\ val.dir = "Command"
  /\ res' = Command_parse_line(line, NewSink("Stderr"))
  /\ pc' = IF IsSome(res'.v) THEN "item" ELSE "none"
  /\ UNCHANGED <<build, val, line, sink, toks, moves, iters>>

\* P::parse_line of the line, for P = Message
CanonParseMessage ==
  /\ pc = "line" /\ val.dir = "Message"
  /\ res' = Message_parse_line(line, NewSink("Stderr"))
  /\ pc' = IF IsSome(res'.v) THEN "item" ELSE "none"
  /\ UNCHANGED <<build, val, line, sink, toks, moves, iters>>

\* item.fmt_line() is printed, and is the next line read; toks holds the
\* lines printed so far
CanonFmtCommand ==
  /\ pc = "item" /\ val.dir = "Command"
  /\ line' = Command_fmt_line(Unwrap(res.v))
  /\ toks' = Append(toks, line')
  /\ iters' = iters + 1
  /\ pc' = IF iters' >= MaxRounds THEN "done" ELSE "line"
  /\ UNCHANGED <<build, val, res, sink, moves>>

CanonFmtMessage ==
  /\ pc = "item" /\ val.dir = "Message"
  /\ line' = Message_fmt_line(Unwrap(res.v))
  /\ toks' = Append(toks, line')
  /\ iters' = iters + 1
  /\ pc' = IF iters' >= MaxRounds THEN "done" ELSE "line"
  /\ UNCHANGED <<build, val, res, sink, moves>>

NextCanon ==
  \/ CanonParseCommand \/ CanonParseMessage
  \/ CanonFmtCommand \/ CanonFmtMessage

SpecCanon == InitCanon /\ [][NextCanon]_vars

\* C30: for every line l for which parse_line(l) = Some(v), the canonical
\* line c = v.fmt_line() parses again to some value v', not None, and
\* v'.fmt_line() = c, for Command and for Message
C30_CanonIdempotent ==
  /\ ~(pc = "none" /\ iters >= 1)
  /\ \A i \in 2..Len(toks) : toks[i] = toks[1]

====
